---- MODULE Spec2Model ----
(***************************************************************************)
(* Model of the WhatsApp session manager (class WhatsAppManager), of the   *)
(* storage it writes to and of the routes that call it.                    *)
(*                                                                         *)
(* The source holds three revisions of the class:                          *)
(*   "A"  server/whatsapp-manager.ts lines 22-343                          *)
(*   "B"  server/whatsapp-manager.ts lines 368-785                         *)
(*   "C"  unnamed/part_000 lines 22-389                                    *)
(* The variable rev says which one is running.                             *)
(*                                                                         *)
(* A step of the model is the code between two awaits: the storage or      *)
(* library call that was awaited takes effect, and the handler runs on to  *)
(* its next await.                                                         *)
(***************************************************************************)
EXTENDS Integers, Sequences, FiniteSets, TLC

\* Bounds of the model.
MaxSocks == 2
MaxHandlers == 1
MaxDeletes == 1

Revisions == {"A", "B", "C"}
Sessions == {"s1"}
Users == {"u1"}

Null == "null"

\* A map without the key k: Map.delete(k), DELETE ... WHERE id = k.
Without(f, k) == [x \in DOMAIN f \ {k} |-> f[x]]

\* A map with key k set to v: Map.set(k, v), INSERT.
With(f, k, v) == [x \in DOMAIN f \cup {k} |-> IF x = k THEN v ELSE f[x]]

VARIABLES
  rev,          \* the revision of the class that is running
  rows,         \* table whatsapp_sessions: session id -> row
  usedIds,      \* session ids the store has generated so far
  authDirs,     \* session ids that have a credential directory
  connections,  \* WhatsAppManager.connections: session id -> entry
  socks,        \* every Device Link made so far, in order of creation
  timers,       \* pending reconnect timers per session id
  tasks,        \* suspended executions (each waits at an await)
  unhandled,    \* handler kinds out of which a rejection has escaped
  convs,        \* table conversations, in order of insertion
  msgs,         \* table messages, in order of insertion
  rules,        \* table chatbot_rules, newest first
  sends,        \* every sock.sendMessage call made so far
  inbox,        \* every message the links have delivered so far
  calls,        \* every sendMessage call made so far
  faults,       \* number of store and link calls that have failed
  nin,          \* the message given to normalisation, when checked alone
  nout,         \* its result
  reads         \* what the read operations have given their callers

ingestVars == <<convs, msgs, rules, sends, inbox, calls, faults>>
normVars == <<nin, nout, reads>>
lifeVars == <<rows, usedIds, authDirs, socks, timers>>

vars == <<rev, rows, usedIds, authDirs, connections, socks, timers, tasks,
          unhandled, convs, msgs, rules, sends, inbox, calls, faults, nin, nout,
          reads>>

\* ------------------------------------------------------------------------
\* Text.  A string is the sequence of its characters; Undef is the value
\* `undefined`.

Undef == <<"\\undefined">>

\* JavaScript truthiness of a string-or-undefined value.
Truthy(v) == v # Undef /\ v # <<>>

\* `${v}` in a template literal.
Show(v) == IF v = Undef THEN <<"u", "n", "d", "e", "f", "i", "n", "e", "d">> ELSE v

\* a || b
OrElse(a, b) == IF Truthy(a) THEN a ELSE b

LowerChar(c) ==
  CASE c = "H" -> "h" [] c = "P" -> "p" [] c = "I" -> "i" [] c = "M" -> "m"
    [] c = "V" -> "v" [] c = "A" -> "a" [] c = "D" -> "d" [] c = "S" -> "s"
    [] c = "C" -> "c" [] c = "R" -> "r" [] c = "Q" -> "q" [] c = "N" -> "n"
    [] c = "T" -> "t" [] OTHER -> c

\* String.prototype.toLowerCase
ToLowerCase(s) == [i \in 1..Len(s) |-> LowerChar(s[i])]

\* String.prototype.includes
Includes(s, sub) ==
  \E i \in 0..(Len(s) - Len(sub)) : SubSeq(s, i + 1, i + Len(sub)) = sub

\* The index of the first "@", 0 when there is none.
AtIndex(s) ==
  IF \E i \in 1..Len(s) : s[i] = "@"
  THEN CHOOSE i \in 1..Len(s) : s[i] = "@" /\ \A j \in 1..(i - 1) : s[j] # "@"
  ELSE 0

\* s.split("@")[0]
BeforeAt(s) == IF AtIndex(s) = 0 THEN s ELSE SubSeq(s, 1, AtIndex(s) - 1)

\* s.trim() === ""
IsBlank(s) == \A i \in 1..Len(s) : s[i] = " "

Hi == <<"H", "i">>
Blank == <<" ">>
Thumb == <<"+">>
FileName == <<"f", ".", "p", "d", "f">>
Alice == <<"A", "l">>
Jid1 == <<"1", "5", "@", "s", ".", "w", "h", "a", "t", "s", "a", "p", "p", ".", "n", "e", "t">>

\* ------------------------------------------------------------------------
\* Message normalisation (handleIncomingMessage, up to the conversation
\* lookup)

NoMedia == [has |-> FALSE, caption |-> Undef, fileName |-> Undef]

\* msg.message with no field set.
EmptyContent ==
  [present |-> TRUE, conversation |-> Undef,
   extended |-> [has |-> FALSE, text |-> Undef],
   textMessage |-> Undef,
   image |-> NoMedia, video |-> NoMedia, audio |-> FALSE,
   document |-> NoMedia, sticker |-> FALSE,
   contact |-> [has |-> FALSE, displayName |-> Undef],
   reaction |-> [has |-> FALSE, text |-> Undef],
   quoted |-> FALSE]

\* msg.message undefined.
NoContent == [EmptyContent EXCEPT !.present = FALSE]

\* `[Kind]` followed by `: caption` when the caption is truthy.
Captioned(tag, m) ==
  IF Truthy(m.caption) THEN tag \o <<":", " ">> \o m.caption ELSE tag

\* Revisions B and C, "PRIORITY 1": the text read from msg.message.
DirectTextC(c) ==
  IF Truthy(c.conversation) THEN c.conversation
  ELSE IF c.extended.has /\ Truthy(c.extended.text) THEN c.extended.text
  ELSE IF Truthy(c.textMessage) THEN c.textMessage
  ELSE IF c.image.has THEN Captioned(<<"[", "I", "m", "a", "g", "e", "]">>, c.image)
  ELSE IF c.video.has THEN Captioned(<<"[", "V", "i", "d", "e", "o", "]">>, c.video)
  ELSE IF c.audio THEN <<"[", "A", "u", "d", "i", "o", " ", "M", "e", "s", "s", "a", "g", "e", "]">>
  ELSE IF c.document.has
    THEN <<"[", "D", "o", "c", "u", "m", "e", "n", "t", ":", " ">> \o Show(c.document.fileName) \o <<"]">>
         \o (IF Truthy(c.document.caption)
             THEN <<" ", "-", " ">> \o c.document.caption ELSE <<>>)
  ELSE IF c.sticker THEN <<"[", "S", "t", "i", "c", "k", "e", "r", "]">>
  ELSE IF c.contact.has
    THEN <<"[", "C", "o", "n", "t", "a", "c", "t", ":", " ">>
         \o OrElse(c.contact.displayName, <<"C", "o", "n", "t", "a", "c", "t">>) \o <<"]">>
  ELSE IF c.reaction.has
    THEN <<"[", "R", "e", "a", "c", "t", "i", "o", "n", ":", " ">> \o Show(c.reaction.text) \o <<"]">>
  ELSE IF c.quoted THEN <<"[", "Q", "u", "o", "t", "e", "d", " ", "M", "e", "s", "s", "a", "g", "e", "]">>
  ELSE <<>>

\* Revisions B and C: messageText as it stands at the conversation lookup.
MessageTextC(msg) ==
  LET direct == IF msg.message.present THEN DirectTextC(msg.message) ELSE <<>>
      alt == OrElse(msg.body, OrElse(msg.text, OrElse(msg.caption, <<>>)))
      second == IF ~Truthy(direct) /\ Truthy(alt) THEN alt ELSE direct
  IN IF Truthy(second) THEN second
     ELSE IF msg.message.present THEN <<"[", "M", "e", "s", "s", "a", "g", "e", " ", "(", "N", "o", " ", "T", "e", "x", "t", ")", "]">>
     ELSE <<"[", "M", "e", "s", "s", "a", "g", "e", " ", "r", "e", "c", "e", "i", "v", "e", "d", "]">>

\* Revision A, "Fallback methods": the text read from msg.message.
FallbackTextA(c) ==
  IF Truthy(c.conversation) THEN c.conversation
  ELSE IF c.extended.has THEN OrElse(c.extended.text, <<>>)
  ELSE IF c.image.has /\ Truthy(c.image.caption) THEN c.image.caption
  ELSE IF c.video.has /\ Truthy(c.video.caption) THEN c.video.caption
  ELSE IF c.document.has /\ Truthy(c.document.caption) THEN c.document.caption
  ELSE IF c.audio THEN <<"[", "A", "u", "d", "i", "o", " ", "m", "e", "s", "s", "a", "g", "e", "]">>
  ELSE IF c.image.has THEN <<"[", "I", "m", "a", "g", "e", "]">>
  ELSE IF c.video.has THEN <<"[", "V", "i", "d", "e", "o", "]">>
  ELSE IF c.document.has
    THEN <<"[", "D", "o", "c", "u", "m", "e", "n", "t", ":", " ">>
         \o OrElse(c.document.fileName, <<"f", "i", "l", "e">>) \o <<"]">>
  ELSE IF c.sticker THEN <<"[", "S", "t", "i", "c", "k", "e", "r", "]">>
  ELSE IF c.contact.has
    THEN <<"[", "C", "o", "n", "t", "a", "c", "t", ":", " ">> \o Show(c.contact.displayName) \o <<"]">>
  ELSE <<"[", "M", "e", "s", "s", "a", "g", "e", "]">>

\* Revision A: msg.extracted is what extractMessageContent(msg.message).text
\* gives, msg.extractThrows whether the extraction throws.
MessageTextA(msg) ==
  LET first == OrElse(msg.extracted, <<>>)
      text == IF msg.extractThrows THEN <<"[", "M", "e", "s", "s", "a", "g", "e", "]">>
              ELSE IF Truthy(first) THEN first
              ELSE FallbackTextA(msg.message)
  IN IF ~Truthy(text) \/ IsBlank(text) THEN <<"[", "M", "e", "s", "s", "a", "g", "e", "]">> ELSE text

MessageText(r, msg) ==
  IF r = "A" THEN MessageTextA(msg) ELSE MessageTextC(msg)

\* Does handleIncomingMessage return before it reads the store?
SkipsAlways(r, msg) == FALSE

Skips(r, msg) ==
  IF r = "A"
  THEN ~Truthy(msg.key.remoteJid) \/ ~msg.message.present \/ msg.key.fromMe
  ELSE ~Truthy(msg.key.remoteJid)

\* A WAMessage.
Envelope(jid, fromMe, pushName, content) ==
  [key |-> [remoteJid |-> jid, fromMe |-> fromMe], pushName |-> pushName,
   message |-> content, body |-> Undef, text |-> Undef, caption |-> Undef,
   extracted |-> Undef, extractThrows |-> FALSE]

\* ------------------------------------------------------------------------
\* Device Link events

Reasons == {"loggedOut", "connectionLost", "absent"}

\* (lastDisconnect?.error as Boom)?.output?.statusCode !== DisconnectReason.loggedOut
ShouldReconnect(reason) == reason # "loggedOut"

\* Number of setTimeout(createSession) calls the close branch makes.
ScheduleOnClose(reason) == IF ShouldReconnect(reason) THEN 1 ELSE 0

\* A connection.update payload: { connection, lastDisconnect, qr, code }.
Updates ==
  { u \in [qr : BOOLEAN, code : BOOLEAN,
           connection : {"none", "close", "open"}, reason : Reasons] :
      /\ u.qr \/ u.code \/ u.connection # "none"
      /\ ~(u.qr /\ u.code)
      /\ u.connection # "close" => u.reason = "absent" }

CloseUpdate(reason) ==
  [qr |-> FALSE, code |-> FALSE, connection |-> "close", reason |-> reason]

\* The await at which the connection.update handler suspends next, having
\* passed the stage `from`; "done" when it runs to its end without one.
FirstAwait(r, u, from) ==
  IF from = "start" /\ u.qr THEN "qr"
  ELSE IF from \in {"start", "qr"} /\ r = "B" /\ u.code THEN "code"
  ELSE IF u.connection = "close" /\ ~ShouldReconnect(u.reason) THEN "logout"
  ELSE IF u.connection = "open" THEN "open"
  ELSE "done"

\* A handler that asks `connection !== "open"` where the code asks
\* `connection === "close"`.
TimersSetUnlessOpen(r, u, from) ==
  IF FirstAwait(r, u, from) = "done" /\ u.connection # "open"
  THEN ScheduleOnClose(u.reason) ELSE 0

\* Timers the handler sets while running from `from` to its next await.
TimersSet(r, u, from) ==
  IF FirstAwait(r, u, from) = "done" /\ u.connection = "close"
  THEN ScheduleOnClose(u.reason) ELSE 0

\* Does a rejection at the await `pc` leave the handler uncaught?
Escapes(r, pc) ==
  IF r = "C" THEN FALSE
  ELSE pc \in {"code", "logout", "open"}

\* After a caught rejection at `pc`: does the handler go on to the next stage?
ContinuesAfterCatch(r, pc) == r \in {"A", "B"} /\ pc = "qr"

\* What is left of update u for a handler that is suspended at `pc`.
Rest(pc, u) ==
  IF pc = "qr" THEN u
  ELSE IF pc = "code" THEN [u EXCEPT !.qr = FALSE]
  ELSE [u EXCEPT !.qr = FALSE, !.code = FALSE]

ConnTask(sid, k, pc, u) ==
  [kind |-> "conn", sid |-> sid, sock |-> k, pc |-> pc, ev |-> Rest(pc, u)]

\* The tasks and timers after the handler of update u on link k has run
\* from stage `from` to its next await.
HandlerTasks(ts, r, sid, k, u, from) ==
  LET pc == FirstAwait(r, u, from)
  IN IF pc = "done" THEN ts ELSE ts \cup {ConnTask(sid, k, pc, u)}

HandlerTimers(tm, r, sid, u, from) ==
  [tm EXCEPT ![sid] = @ + TimersSet(r, u, from)]

HandlerSocks(ss, r, k, u, from) ==
  [ss EXCEPT ![k].reconnects = @ + TimersSet(r, u, from)]

\* ------------------------------------------------------------------------
\* Storage

\* DatabaseStorage.updateWhatsappSession: no row, no change and no error.
UpdateRow(rs, sid, data) ==
  IF sid \notin DOMAIN rs THEN rs
  ELSE [rs EXCEPT ![sid] =
          [f \in DOMAIN @ |-> IF f \in DOMAIN data THEN data[f] ELSE @[f]]]

Init ==
  /\ rev \in Revisions
  /\ rows = <<>>
  /\ usedIds = {}
  /\ authDirs = {}
  /\ connections = <<>>
  /\ socks = <<>>
  /\ timers = [s \in Sessions |-> 0]
  /\ tasks = {}
  /\ unhandled = {}
  /\ convs = <<>> /\ msgs = <<>> /\ rules = <<>> /\ sends = <<>>
  /\ inbox = <<>> /\ calls = <<>> /\ faults = 0
  /\ nin = <<>> /\ nout = <<>> /\ reads = {}

\* Handlers of link events that are suspended.
Handlers == {t \in tasks : t.kind = "conn"}

\* ------------------------------------------------------------------------
\* createSession

CreateTask(sid) == [kind |-> "create", sid |-> sid, pc |-> "auth"]

\* POST /api/whatsapp/sessions: insert the row, then createSession up to
\* its await of useMultiFileAuthState.
PostSession(sid, uid) ==
  /\ sid \notin usedIds
  /\ usedIds' = usedIds \cup {sid}
  /\ rows' = With(rows, sid,
                [userId |-> uid, status |-> "connecting",
                 phoneNumber |-> Null, qrCode |-> Null])
  /\ authDirs' = authDirs \cup {sid}
  /\ tasks' = tasks \cup {CreateTask(sid)}
  /\ UNCHANGED <<rev, connections, socks, timers, unhandled>>
  /\ UNCHANGED <<ingestVars, normVars>>

\* The reconnect timer fires: createSession up to its await.
TimerFire(sid) ==
  /\ timers[sid] > 0
  /\ timers' = [timers EXCEPT ![sid] = @ - 1]
  /\ authDirs' = authDirs \cup {sid}
  /\ tasks' = tasks \cup {CreateTask(sid)}
  /\ UNCHANGED <<rev, rows, usedIds, connections, socks, unhandled>>
  /\ UNCHANGED <<ingestVars, normVars>>

NewSock(sid) ==
  [sid |-> sid, state |-> "live", reason |-> "none", opened |-> FALSE,
   reconnects |-> 0]

\* A createSession that registers its link as already connected.
NewConnAsOpen(k) ==
  [sock |-> k, qrCode |-> Null, pairingCode |-> Null, status |-> "connected"]

NewConn(k) ==
  [sock |-> k, qrCode |-> Null, pairingCode |-> Null, status |-> "connecting"]

\* createSession after useMultiFileAuthState: make the socket, subscribe,
\* connections.set.  A throw is caught and logged.
CreateFinish(t, ok) ==
  /\ t \in tasks /\ t.kind = "create"
  /\ IF ok
     THEN /\ Len(socks) < MaxSocks
          /\ socks' = Append(socks, NewSock(t.sid))
          /\ connections' = With(connections, t.sid, NewConn(Len(socks) + 1))
     ELSE UNCHANGED <<socks, connections>>
  /\ tasks' = tasks \ {t}
  /\ UNCHANGED <<rev, rows, usedIds, authDirs, timers, unhandled>>
  /\ UNCHANGED <<ingestVars, normVars>>

\* ------------------------------------------------------------------------
\* connection.update handler

\* Link k emits update u; the handler runs to its first await.
ConnectionUpdate(k, u) ==
  /\ Cardinality(Handlers) < MaxHandlers
  /\ k \in DOMAIN socks /\ socks[k].state = "live"
  /\ u.code => rev = "B"
  /\ LET sid == socks[k].sid
         ss == [socks EXCEPT
                  ![k].state = IF u.connection = "close" THEN "closed" ELSE @,
                  ![k].reason = IF u.connection = "close" THEN u.reason ELSE @,
                  ![k].opened = IF u.connection = "none" THEN @
                                ELSE u.connection = "open"]
     IN /\ socks' = HandlerSocks(ss, rev, k, u, "start")
        /\ tasks' = HandlerTasks(tasks, rev, sid, k, u, "start")
        /\ timers' = HandlerTimers(timers, rev, sid, u, "start")
  /\ UNCHANGED <<rev, rows, usedIds, authDirs, connections, unhandled>>
  /\ UNCHANGED <<ingestVars, normVars>>

\* The handler resumes from an await that rejected.
HandlerRejected(t) ==
  /\ unhandled' = IF Escapes(rev, t.pc)
                  THEN unhandled \cup {"connection.update"} ELSE unhandled
  /\ IF ContinuesAfterCatch(rev, t.pc)
     THEN /\ tasks' = HandlerTasks(tasks \ {t}, rev, t.sid, t.sock, t.ev, t.pc)
          /\ timers' = HandlerTimers(timers, rev, t.sid, t.ev, t.pc)
          /\ socks' = HandlerSocks(socks, rev, t.sock, t.ev, t.pc)
     ELSE /\ tasks' = tasks \ {t}
          /\ UNCHANGED <<timers, socks>>
  /\ UNCHANGED <<rows, connections>>

\* QR branch: QRCode.toDataURL, then updateWhatsappSession.
QrStep(t, ok) ==
  /\ t \in tasks /\ t.kind = "conn" /\ t.pc = "qr"
  /\ IF ok
     THEN /\ rows' = UpdateRow(rows, t.sid,
                        [qrCode |-> "qr", status |-> "connecting"])
          /\ connections' =
               IF rev \in {"A", "B"} /\ t.sid \in DOMAIN connections
               THEN [connections EXCEPT ![t.sid].qrCode = "qr",
                                        ![t.sid].status = "connecting"]
               ELSE connections
          /\ tasks' = HandlerTasks(tasks \ {t}, rev, t.sid, t.sock, t.ev, "qr")
          /\ timers' = HandlerTimers(timers, rev, t.sid, t.ev, "qr")
          /\ socks' = HandlerSocks(socks, rev, t.sock, t.ev, "qr")
          /\ UNCHANGED unhandled
     ELSE HandlerRejected(t)
  /\ UNCHANGED <<rev, usedIds, authDirs>>
  /\ UNCHANGED <<ingestVars, normVars>>

\* Pairing-code branch (revision B): updateWhatsappSession.
CodeStep(t, ok) ==
  /\ t \in tasks /\ t.kind = "conn" /\ t.pc = "code"
  /\ IF ok
     THEN /\ rows' = UpdateRow(rows, t.sid,
                        [qrCode |-> "code", status |-> "connecting"])
          /\ connections' =
               IF t.sid \in DOMAIN connections
               THEN [connections EXCEPT ![t.sid].pairingCode = "code",
                                        ![t.sid].status = "connecting"]
               ELSE connections
          /\ tasks' = HandlerTasks(tasks \ {t}, rev, t.sid, t.sock, t.ev, "code")
          /\ timers' = HandlerTimers(timers, rev, t.sid, t.ev, "code")
          /\ socks' = HandlerSocks(socks, rev, t.sock, t.ev, "code")
          /\ UNCHANGED unhandled
     ELSE HandlerRejected(t)
  /\ UNCHANGED <<rev, usedIds, authDirs>>
  /\ UNCHANGED <<ingestVars, normVars>>

\* Close branch, logged out: updateWhatsappSession, then connections.delete.
LogoutStep(t, ok) ==
  /\ t \in tasks /\ t.kind = "conn" /\ t.pc = "logout"
  /\ IF ok
     THEN /\ rows' = UpdateRow(rows, t.sid, [status |-> "disconnected"])
          /\ connections' = Without(connections, t.sid)
          /\ tasks' = tasks \ {t}
          /\ UNCHANGED <<timers, socks, unhandled>>
     ELSE HandlerRejected(t)
  /\ UNCHANGED <<rev, usedIds, authDirs>>
  /\ UNCHANGED <<ingestVars, normVars>>

\* Open branch: updateWhatsappSession, then the registry entry is marked.
OpenStep(t, ok) ==
  /\ t \in tasks /\ t.kind = "conn" /\ t.pc = "open"
  /\ IF ok
     THEN /\ rows' = UpdateRow(rows, t.sid,
                        [phoneNumber |-> "phone", status |-> "connected",
                         qrCode |-> Null])
          /\ connections' =
               IF t.sid \in DOMAIN connections
               THEN [connections EXCEPT ![t.sid].status = "connected",
                                        ![t.sid].qrCode = Null]
               ELSE connections
          /\ tasks' = tasks \ {t}
          /\ UNCHANGED <<timers, socks, unhandled>>
     ELSE HandlerRejected(t)
  /\ UNCHANGED <<rev, usedIds, authDirs>>
  /\ UNCHANGED <<ingestVars, normVars>>

\* ------------------------------------------------------------------------
\* disconnectSession

\* DELETE /api/whatsapp/sessions/:id: the row is read, disconnectSession
\* runs to its first await (logout when the entry has a socket).
DeleteSession(sid) ==
  /\ Cardinality({t \in tasks : t.kind \in {"disc", "route"}}) < MaxDeletes
  /\ sid \in DOMAIN rows
  /\ LET has == sid \in DOMAIN connections
     IN tasks' = tasks \cup
          {[kind |-> "disc", sid |-> sid,
            sock |-> IF has THEN connections[sid].sock ELSE 0,
            pc |-> IF has THEN "logout" ELSE "persist",
            wasConnected |-> (has /\ connections[sid].status = "connected"),
            logoutFailed |-> FALSE, endFailed |-> FALSE]}
  /\ UNCHANGED <<rev, rows, usedIds, authDirs, connections, socks, timers,
                 unhandled>>
  /\ UNCHANGED <<ingestVars, normVars>>

\* sock.logout() settles; then sock.end(undefined); then the await of
\* updateWhatsappSession.  A logout that succeeds closes the link with the
\* logged-out reason; end() closes a link that is still live, with no reason.
\* Either close is delivered to the link's connection.update handler.  A
\* throw of end() is caught and leaves the link as it is.
DiscLogout(t, ok, endOk) ==
  /\ t \in tasks /\ t.kind = "disc" /\ t.pc = "logout"
  /\ ok => endOk
  /\ LET k == t.sock
         live == socks[k].state = "live" /\ endOk
         u == CloseUpdate(IF ok THEN "loggedOut" ELSE "absent")
         ss == [socks EXCEPT ![k].state = "closed", ![k].reason = u.reason,
                             ![k].opened = FALSE]
         t2 == [t EXCEPT !.pc = "persist", !.logoutFailed = ~ok,
                         !.endFailed = ~endOk]
         ts == (tasks \ {t}) \cup {t2}
     IN IF live
        THEN /\ socks' = HandlerSocks(ss, rev, k, u, "start")
             /\ tasks' = HandlerTasks(ts, rev, socks[k].sid, k, u, "start")
             /\ timers' = HandlerTimers(timers, rev, socks[k].sid, u, "start")
        ELSE /\ tasks' = ts
             /\ UNCHANGED <<socks, timers>>
  /\ UNCHANGED <<rev, rows, usedIds, authDirs, connections, unhandled>>
  /\ UNCHANGED <<ingestVars, normVars>>

\* fs.rmSync(sessionPath) when the directory exists; a throw is caught.
RemoveAuthNever(dirs, sid, rmOk) == dirs

RemoveAuth(dirs, sid, rmOk) == IF rmOk THEN dirs \ {sid} ELSE dirs

\* A disconnectSession that keeps the registry entry when the status update
\* failed.
RegistryAfterDisconnectIfPersisted(conns, sid, persistOk) ==
  IF persistOk THEN Without(conns, sid) ELSE conns

\* this.connections.delete(sessionId), after the try/catch of the status
\* update.
RegistryAfterDisconnect(conns, sid, persistOk) == Without(conns, sid)

\* The DELETE route once disconnectSession has returned, at its await of
\* deleteWhatsappSession; `call` is the disconnectSession call that returned,
\* persistOk and rmOk say how its status update and its rmSync went.
RouteTask(call, persistOk, rmOk) ==
  [kind |-> "route", sid |-> call.sid, pc |-> "delrow",
   wasConnected |-> call.wasConnected, logoutFailed |-> call.logoutFailed,
   endFailed |-> call.endFailed,
   persistOk |-> persistOk, rmOk |-> rmOk]

\* updateWhatsappSession settles; connections.delete; fs.rmSync; return.
\* The route then awaits deleteWhatsappSession.
DiscPersist(t, persistOk, rmOk) ==
  /\ t \in tasks /\ t.kind = "disc" /\ t.pc = "persist"
  /\ rows' = IF persistOk
             THEN UpdateRow(rows, t.sid, [status |-> "disconnected"])
             ELSE rows
  /\ connections' = RegistryAfterDisconnect(connections, t.sid, persistOk)
  /\ authDirs' = RemoveAuth(authDirs, t.sid, rmOk)
  /\ tasks' = (tasks \ {t}) \cup {RouteTask(t, persistOk, rmOk)}
  /\ UNCHANGED <<rev, usedIds, socks, timers, unhandled>>
  /\ UNCHANGED <<ingestVars, normVars>>

\* deleteWhatsappSession settles; the route answers.
DeleteRow(t) ==
  /\ t \in tasks /\ t.kind = "route" /\ t.pc = "delrow"
  /\ rows' = Without(rows, t.sid)
  /\ tasks' = tasks \ {t}
  /\ UNCHANGED <<rev, usedIds, authDirs, connections, socks, timers,
                 unhandled>>
  /\ UNCHANGED <<ingestVars, normVars>>

\* ------------------------------------------------------------------------

Next ==
  \/ \E sid \in Sessions, uid \in Users : PostSession(sid, uid)
  \/ \E sid \in Sessions : TimerFire(sid)
  \/ \E t \in tasks, ok \in BOOLEAN : CreateFinish(t, ok)
  \/ \E k \in DOMAIN socks, u \in Updates : ConnectionUpdate(k, u)
  \/ \E t \in tasks, ok \in BOOLEAN : QrStep(t, ok)
  \/ \E t \in tasks, ok \in BOOLEAN : CodeStep(t, ok)
  \/ \E t \in tasks, ok \in BOOLEAN : LogoutStep(t, ok)
  \/ \E t \in tasks, ok \in BOOLEAN : OpenStep(t, ok)
  \/ \E sid \in Sessions : DeleteSession(sid)
  \/ \E t \in tasks, ok \in BOOLEAN, e \in BOOLEAN : DiscLogout(t, ok, e)
  \/ \E t \in tasks, p \in BOOLEAN, r \in BOOLEAN : DiscPersist(t, p, r)
  \/ \E t \in tasks : DeleteRow(t)

Spec == Init /\ [][Next]_vars

\* ------------------------------------------------------------------------
\* Reconnection on its own: sessions are created and their links emit
\* events, no session is deleted.  Timers fire and awaited calls settle.

NextLive ==
  \/ \E sid \in Sessions, uid \in Users : PostSession(sid, uid)
  \/ \E sid \in Sessions : TimerFire(sid)
  \/ \E t \in tasks, ok \in BOOLEAN : CreateFinish(t, ok)
  \/ \E k \in DOMAIN socks, u \in Updates : ConnectionUpdate(k, u)
  \/ \E t \in tasks, ok \in BOOLEAN : QrStep(t, ok)
  \/ \E t \in tasks, ok \in BOOLEAN : CodeStep(t, ok)
  \/ \E t \in tasks, ok \in BOOLEAN : LogoutStep(t, ok)
  \/ \E t \in tasks, ok \in BOOLEAN : OpenStep(t, ok)

Settling ==
  \/ \E sid \in Sessions : TimerFire(sid)
  \/ \E t \in tasks, ok \in BOOLEAN : CreateFinish(t, ok)
  \/ \E t \in tasks, ok \in BOOLEAN : QrStep(t, ok)
  \/ \E t \in tasks, ok \in BOOLEAN : CodeStep(t, ok)
  \/ \E t \in tasks, ok \in BOOLEAN : LogoutStep(t, ok)
  \/ \E t \in tasks, ok \in BOOLEAN : OpenStep(t, ok)

SpecLive == Init /\ [][NextLive]_vars /\ WF_vars(Settling)

\* ------------------------------------------------------------------------
\* Ingestion and automation

\* Bounds: messages delivered and send requests made through the route in
\* all, messages in one messages.upsert event, send requests made through the
\* route, failed calls of the store and of the link.
MaxMsgs == 2
MaxBatch == 2
MaxPosts == 1
MaxFaults == 1

IngestSessions == {"s1", "s2"}

\* The link of each session while messages are ingested.
SockOf(sid) == IF sid = "s1" THEN 1 ELSE 2

Suffix == <<"@", "s", ".", "w", "h", "a", "t", "s", "a", "p", "p", ".", "n", "e", "t">>

\* An address that gets the suffix whatever it holds.
JidOfAlwaysSuffix(to) == to \o Suffix

\* const jid = to.includes("@") ? to : `${to}@s.whatsapp.net`
JidOf(to) == IF Includes(to, <<"@">>) THEN to ELSE to \o Suffix

ContactNumber(msg) == BeforeAt(msg.key.remoteJid)

\* A name that is the contact number whatever the push name.
ContactNameNumberOnly(msg) == ContactNumber(msg)

\* msg.pushName || contactNumber
ContactName(msg) == OrElse(msg.pushName, ContactNumber(msg))

\* A row that is stored as inbound whatever the envelope says.
StoredFromMeNever(r, msg) == FALSE

\* The fromMe flag of the stored row.
StoredFromMe(r, msg) == IF r = "A" THEN FALSE ELSE msg.key.fromMe = TRUE

StoredStatus(r, msg) ==
  IF StoredFromMe(r, msg) THEN "sent" ELSE "delivered"

\* A lookup that reads the conversations of every session.
MatchesAnySession(cs, sid, number) ==
  {i \in DOMAIN cs : cs[i].contactNumber = number}

\* DatabaseStorage.getConversationsBySessionId(...).find(contactNumber):
\* the rows that match.
Matches(cs, sid, number) ==
  {i \in DOMAIN cs : cs[i].sessionId = sid /\ cs[i].contactNumber = number}

\* DatabaseStorage.getChatbotRulesByUserId: the user's rules, in table order.
RulesOf(uid) == SelectSeq(rules, LAMBDA r : r.userId = uid)

\* A match that tells upper case from lower case.
RuleMatchesExactCase(rule, text) ==
  rule.isActive /\ Includes(text, rule.keyword)

RuleMatches(rule, text) ==
  rule.isActive /\ Includes(ToLowerCase(text), ToLowerCase(rule.keyword))

\* A find that gives the last rule that matches.
MatchedRuleLast(rs, text) ==
  IF \E i \in DOMAIN rs : RuleMatches(rs[i], text)
  THEN CHOOSE i \in DOMAIN rs :
         RuleMatches(rs[i], text)
           /\ \A j \in (i + 1)..Len(rs) : ~RuleMatches(rs[j], text)
  ELSE 0

\* chatbotRules.find(...): the index of the first rule that matches, or 0.
MatchedRule(rs, text) ==
  IF \E i \in DOMAIN rs : RuleMatches(rs[i], text)
  THEN CHOOSE i \in DOMAIN rs :
         RuleMatches(rs[i], text) /\ \A j \in 1..(i - 1) : ~RuleMatches(rs[j], text)
  ELSE 0

\* sendMessage: the guard on the registry entry.
SendAllowedAnyStatus(sid) == sid \in DOMAIN connections

SendAllowed(sid) ==
  sid \in DOMAIN connections /\ connections[sid].status = "connected"

\* What sendMessage gives its caller when the link's send rejects.
SendFailedThrows == "threw"

SendFailed == "false"

\* A sendMessage that drops the registry entry when the link's send rejects.
RegistryAfterSendDropsFailed(conns, sid, ok) ==
  IF ok THEN conns ELSE Without(conns, sid)

\* The registry once sendMessage has returned: the entry is read, the send is
\* awaited, and the catch block logs and returns false.
RegistryAfterSend(conns, sid, ok) == conns

\* sendMessage up to its await: the call is logged, and the send is issued
\* when the guard lets it.
\* The status sendMessage finds in the registry.
StatusOf(sid) ==
  IF sid \in DOMAIN connections THEN connections[sid].status ELSE "absent"

CallsAfter(sid, by, to, text) ==
  Append(calls, [sid |-> sid, by |-> by, to |-> to, text |-> text,
                 status |-> StatusOf(sid),
                 result |-> IF SendAllowed(sid) THEN "pending" ELSE "false"])

SendsAfter(sid, to, text) ==
  IF SendAllowed(sid)
  THEN Append(sends, [sock |-> connections[sid].sock, jid |-> JidOf(to),
                      text |-> text, call |-> Len(calls) + 1,
                      outcome |-> "pending"])
  ELSE sends

\* The link's send of call c settles.
Settle(ss, c, ok) ==
  [i \in DOMAIN ss |->
     IF ss[i].call = c /\ ss[i].outcome = "pending"
     THEN [ss[i] EXCEPT !.outcome = IF ok THEN "ok" ELSE "failed"]
     ELSE ss[i]]

\* No conversation in hand.  `via` is the call that gave the conversation:
\* the lookup, the create, or the second query after a failed create.
NoConv == [id |-> 0, unread |-> 0, via |-> "none"]

\* The sendMessage calls the route has made.
Posts == {c \in DOMAIN calls : calls[c].by = 0}

\* A call of the store or of the link settles: it succeeded or it failed.
Settles(ok) ==
  /\ ok \/ faults < MaxFaults
  /\ faults' = IF ok THEN faults ELSE faults + 1

\* The messages of a batch that handleIncomingMessage does not return from
\* at once, each with its place in the inbox.
RECURSIVE Handled(_, _, _)
Handled(r, batch, firstId) ==
  IF batch = <<>> THEN <<>>
  ELSE (IF Skips(r, Head(batch)) THEN <<>>
        ELSE <<[id |-> firstId, msg |-> Head(batch)]>>)
       \o Handled(r, Tail(batch), firstId + 1)

UpsertTask(sid, uid, todo) ==
  [kind |-> "upsert", sid |-> sid, uid |-> uid, todo |-> todo,
   pc |-> "lookup", conv |-> NoConv]

\* The tasks once handleIncomingMessage has returned for the head of t.todo:
\* the loop of the upsert handler goes on to the next message.
Advance(t) ==
  IF Len(t.todo) = 1 THEN tasks \ {t}
  ELSE (tasks \ {t}) \cup {UpsertTask(t.sid, t.uid, Tail(t.todo))}

Goto(t, pc, conv) ==
  (tasks \ {t}) \cup {[t EXCEPT !.pc = pc, !.conv = conv]}

Cur(t) == Head(t.todo).msg
CurText(t) == MessageText(rev, Cur(t))

\* A handler that starts handleIncomingMessage for every message of the
\* batch without awaiting the one before.
LoopNoAwait(sid, uid, todo) ==
  {UpsertTask(sid, uid, <<todo[i]>>) : i \in DOMAIN todo}

\* for (const msg of m.messages) { await this.handleIncomingMessage(...) }:
\* one execution that takes the messages of the batch in turn.
Loop(sid, uid, todo) == {UpsertTask(sid, uid, todo)}

\* The number of messages.upsert events logged in the inbox.
Events(box) ==
  IF box = <<>> THEN 0 ELSE box[Len(box)].ev

\* A messages.upsert event of the link of session sid.
Upsert(sid, type, batch) ==
  /\ Len(inbox) + Cardinality(Posts) + Len(batch) <= MaxMsgs
  /\ sid \in DOMAIN rows
  /\ inbox' = inbox \o [i \in 1..Len(batch) |->
                          [sid |-> sid, msg |-> batch[i], ev |-> Events(inbox) + 1,
                           seq |-> ~\E t \in tasks :
                                     t.kind = "upsert" /\ t.sid = sid,
                           handed |-> ~(rev = "A" /\ type # "notify")]]
  /\ LET todo == IF rev = "A" /\ type # "notify" THEN <<>>
                 ELSE Handled(rev, batch, Len(inbox) + 1)
     IN tasks' = IF todo = <<>> THEN tasks
                 ELSE tasks \cup Loop(sid, rows[sid].userId, todo)
  /\ UNCHANGED <<rev, lifeVars, connections, unhandled, convs, msgs, rules,
                 sends, calls, faults, normVars>>

\* A handle that takes the unread count for 0 whatever the row says.
FoundUnreadZero(i) == [id |-> i, unread |-> 0, via |-> "lookup"]

\* conversation = existingConversations.find(...): the row as it was read.
Found(i) == [id |-> i, unread |-> convs[i].unreadCount, via |-> "lookup"]

\* getConversationsBySessionId settles; find.
Lookup(t, ok, i) ==
  /\ t \in tasks /\ t.kind = "upsert" /\ t.pc = "lookup"
  /\ Settles(ok)
  /\ LET found == Matches(convs, t.sid, ContactNumber(Cur(t)))
     IN IF ok /\ found # {}
        THEN /\ i \in found
             /\ tasks' = Goto(t, "update", Found(i))
        ELSE /\ i = 0
             /\ tasks' = Goto(t, "create", NoConv)
  /\ UNCHANGED <<rev, lifeVars, connections, unhandled, convs, msgs, rules,
                 sends, inbox, calls, normVars>>

\* createConversation settles.
Create(t, ok) ==
  /\ t \in tasks /\ t.kind = "upsert" /\ t.pc = "create"
  /\ Settles(ok)
  /\ IF ok
     THEN /\ convs' = Append(convs,
                        [sessionId |-> t.sid,
                         contactName |-> ContactName(Cur(t)),
                         contactNumber |-> ContactNumber(Cur(t)),
                         lastMessage |-> CurText(t), unreadCount |-> 1,
                         by |-> Head(t.todo).id])
          /\ tasks' = Goto(t, "append", [id |-> Len(convs) + 1, unread |-> 1,
                                         via |-> "create"])
     ELSE /\ tasks' = Goto(t, "retry", NoConv)
          /\ UNCHANGED convs
  /\ UNCHANGED <<rev, lifeVars, connections, unhandled, msgs, rules, sends,
                 inbox, calls, normVars>>

\* A catch block that rethrows the create error whatever the second query
\* finds.
AfterRetryRethrows(t, i) == Advance(t)

\* conversation = retryConvs.find(...); if (!conversation) throw e: the
\* handler goes on with row i, or, with no row (i = 0), the error reaches the
\* outer catch and handleIncomingMessage returns.
AfterRetry(t, i) ==
  IF i # 0
  THEN Goto(t, "append",
            [id |-> i, unread |-> convs[i].unreadCount, via |-> "retry"])
  ELSE Advance(t)

\* The second getConversationsBySessionId, after a failed create, settles.
Retry(t, ok, i) ==
  /\ t \in tasks /\ t.kind = "upsert" /\ t.pc = "retry"
  /\ Settles(ok)
  /\ LET found == Matches(convs, t.sid, ContactNumber(Cur(t)))
     IN /\ IF ok /\ found # {} THEN i \in found ELSE i = 0
        /\ tasks' = AfterRetry(t, i)
  /\ UNCHANGED <<rev, lifeVars, connections, unhandled, convs, msgs, rules,
                 sends, inbox, calls, normVars>>

\* A store call whose rejection reaches the outer catch.
AfterStoreUncaught(t, pc, ok) ==
  IF ok THEN Goto(t, pc, t.conv) ELSE Advance(t)

\* try { await storage.updateConversation / createMessage } catch (e) { log }:
\* the handler goes on to its next call whether the call failed or not.
AfterStore(t, pc, ok) == Goto(t, pc, t.conv)

\* An update that leaves unreadCount as it is.
TouchedNoCount(row, text, unread) == [row EXCEPT !.lastMessage = text]

\* updateConversation(conversation.id, { lastMessage, lastMessageTime,
\* unreadCount: (conversation.unreadCount || 0) + 1 }).
Touched(row, text, unread) ==
  [row EXCEPT !.lastMessage = text, !.unreadCount = unread + 1]

\* updateConversation settles.
Update(t, ok) ==
  /\ t \in tasks /\ t.kind = "upsert" /\ t.pc = "update"
  /\ Settles(ok)
  /\ convs' = IF ok
              THEN [convs EXCEPT
                      ![t.conv.id] = Touched(@, CurText(t), t.conv.unread)]
              ELSE convs
  /\ tasks' = AfterStore(t, "append", ok)
  /\ UNCHANGED <<rev, lifeVars, connections, unhandled, msgs, rules, sends,
                 inbox, calls, normVars>>

\* createMessage settles.
AppendMessage(t, ok) ==
  /\ t \in tasks /\ t.kind = "upsert" /\ t.pc = "append"
  /\ Settles(ok)
  /\ msgs' = IF ok
             THEN Append(msgs, [conversationId |-> t.conv.id,
                                content |-> CurText(t),
                                fromMe |-> StoredFromMe(rev, Cur(t)),
                                status |-> StoredStatus(rev, Cur(t)),
                                of |-> Head(t.todo).id])
             ELSE msgs
  /\ tasks' = AfterStore(t, "rules", ok)
  /\ UNCHANGED <<rev, lifeVars, connections, unhandled, convs, rules, sends,
                 inbox, calls, normVars>>

\* getChatbotRulesByUserId settles; find; sendMessage up to its await.
Automation(t, ok) ==
  /\ t \in tasks /\ t.kind = "upsert" /\ t.pc = "rules"
  /\ Settles(ok)
  /\ LET rs == RulesOf(t.uid)
         m == MatchedRule(rs, CurText(t))
     IN IF ok /\ m # 0
        THEN /\ calls' = CallsAfter(t.sid, Head(t.todo).id,
                                    ContactNumber(Cur(t)), rs[m].response)
             /\ sends' = SendsAfter(t.sid, ContactNumber(Cur(t)), rs[m].response)
             /\ tasks' = IF SendAllowed(t.sid) THEN Goto(t, "send", t.conv)
                         ELSE Advance(t)
        ELSE /\ tasks' = Advance(t)
             /\ UNCHANGED <<calls, sends>>
  /\ UNCHANGED <<rev, lifeVars, connections, unhandled, convs, msgs, rules,
                 inbox, normVars>>

\* The send of the automation's sendMessage settles.
AutomationSent(t, ok) ==
  /\ t \in tasks /\ t.kind = "upsert" /\ t.pc = "send"
  /\ Settles(ok)
  /\ \E c \in DOMAIN calls :
       /\ calls[c].by = Head(t.todo).id /\ calls[c].result = "pending"
       /\ calls' = [calls EXCEPT ![c].result = IF ok THEN "true" ELSE SendFailed]
       /\ sends' = Settle(sends, c, ok)
  /\ tasks' = Advance(t)
  /\ connections' = RegistryAfterSend(connections, t.sid, ok)
  /\ UNCHANGED <<rev, lifeVars, unhandled, convs, msgs, rules, inbox, normVars>>

\* POST /api/conversations/:id/messages up to the await inside sendMessage:
\* the conversation and its session are read, the owner is checked,
\* sendMessage is called.
PostTask(conv, content, pc) ==
  [kind |-> "post", conv |-> conv, content |-> content, pc |-> pc,
   call |-> Len(calls) + 1]

PostMessage(uid, conv, content) ==
  /\ Cardinality(Posts) < MaxPosts
  /\ Len(inbox) + Cardinality(Posts) < MaxMsgs
  /\ conv \in DOMAIN convs
  /\ Truthy(content)
  /\ convs[conv].sessionId \in DOMAIN rows
  /\ rows[convs[conv].sessionId].userId = uid
  /\ LET sid == convs[conv].sessionId
     IN /\ calls' = CallsAfter(sid, 0, convs[conv].contactNumber, content)
        /\ sends' = SendsAfter(sid, convs[conv].contactNumber, content)
        /\ tasks' = IF SendAllowed(sid)
                    THEN tasks \cup {PostTask(conv, content, "send")}
                    ELSE tasks
  /\ UNCHANGED <<rev, lifeVars, connections, unhandled, convs, msgs, rules,
                 inbox, faults, normVars>>

\* A route that stores the message whatever sendMessage gave.
AfterSentStoresAnyway(t, ok) == (tasks \ {t}) \cup {[t EXCEPT !.pc = "store"]}

\* if (!sent) return res.status(500)...: the route goes on to createMessage
\* only when sendMessage gave true.
AfterSent(t, ok) ==
  IF ok THEN (tasks \ {t}) \cup {[t EXCEPT !.pc = "store"]} ELSE tasks \ {t}

\* The send of the route's sendMessage settles; `if (!sent)`.
PostSent(t, ok) ==
  /\ t \in tasks /\ t.kind = "post" /\ t.pc = "send"
  /\ Settles(ok)
  /\ calls' = [calls EXCEPT ![t.call].result = IF ok THEN "true" ELSE SendFailed]
  /\ sends' = Settle(sends, t.call, ok)
  /\ tasks' = AfterSent(t, ok)
  /\ connections' = RegistryAfterSend(connections, calls[t.call].sid, ok)
  /\ UNCHANGED <<rev, lifeVars, unhandled, convs, msgs, rules, inbox, normVars>>

\* The route's createMessage settles.
PostStore(t, ok) ==
  /\ t \in tasks /\ t.kind = "post" /\ t.pc = "store"
  /\ Settles(ok)
  /\ msgs' = IF ok
             THEN Append(msgs, [conversationId |-> t.conv, content |-> t.content,
                                fromMe |-> TRUE, status |-> "sent", of |-> 0])
             ELSE msgs
  /\ tasks' = IF ok THEN (tasks \ {t}) \cup {[t EXCEPT !.pc = "touch"]}
              ELSE tasks \ {t}
  /\ UNCHANGED <<rev, lifeVars, connections, unhandled, convs, rules, sends,
                 inbox, calls, normVars>>

\* The route's updateConversation settles.
PostTouch(t, ok) ==
  /\ t \in tasks /\ t.kind = "post" /\ t.pc = "touch"
  /\ Settles(ok)
  /\ convs' = IF ok THEN [convs EXCEPT ![t.conv].lastMessage = t.content]
              ELSE convs
  /\ tasks' = tasks \ {t}
  /\ UNCHANGED <<rev, lifeVars, connections, unhandled, msgs, rules, sends,
                 inbox, calls, normVars>>

\* The messages the links deliver.
Text(x) == [EmptyContent EXCEPT !.conversation = x]

IngestMsgs ==
  {Envelope(Jid1, FALSE, Alice, Text(Hi)),
   Envelope(Jid1, TRUE, Undef, Text(Hi)),
   Envelope(Jid1, FALSE, Undef, [EmptyContent EXCEPT !.sticker = TRUE]),
   Envelope(Undef, FALSE, Alice, Text(Hi))}

Batches ==
  UNION {[1..n -> IngestMsgs] : n \in 1..MaxBatch}

Rule(uid, sid, keyword, response, active) ==
  [userId |-> uid, sessionId |-> sid, keyword |-> keyword,
   response |-> response, isActive |-> active]

Yo == <<"Y", "o">>
Ok == <<"O", "k">>

Greets == <<Rule("u1", Null, <<"h", "I">>, Yo, FALSE), Rule("u1", Null, <<"h">>, Ok, TRUE)>>

Connected(sid) ==
  [sock |-> SockOf(sid), qrCode |-> Null, pairingCode |-> Null,
   status |-> "connected"]

BothConnected == [s \in IngestSessions |-> Connected(s)]

\* The registry and the chatbot_rules table (newest rule first) the
\* ingestion starts from.  Session s2 is connected; session s1 is connected,
\* still connecting, or not registered.
Setups ==
  {<<BothConnected, <<>> >>,
   <<BothConnected, Greets>>,
   <<BothConnected,
     <<Rule("u2", Null, Hi, Yo, TRUE), Rule("u1", "s2", Hi, Ok, TRUE)>> >>,
   <<BothConnected,
     <<Rule("u1", Null, <<"z">>, Yo, TRUE), Rule("u1", Null, <<"I">>, Ok, TRUE),
       Rule("u1", Null, <<"h">>, Yo, TRUE)>> >>,
   <<[BothConnected EXCEPT !["s1"].status = "connecting"], Greets>>,
   <<[s \in {"s2"} |-> Connected(s)], Greets>>}

InitIngest ==
  /\ rev \in Revisions
  /\ rows = [s \in IngestSessions |->
               [userId |-> "u1", status |-> "connected",
                phoneNumber |-> Null, qrCode |-> Null]]
  /\ usedIds = IngestSessions /\ authDirs = IngestSessions
  /\ \E setup \in Setups : connections = setup[1] /\ rules = setup[2]
  /\ socks = [k \in 1..2 |->
                [NewSock(IF k = 1 THEN "s1" ELSE "s2") EXCEPT !.opened = TRUE]]
  /\ timers = [s \in Sessions |-> 0] /\ tasks = {} /\ unhandled = {}
  /\ convs = <<>> /\ msgs = <<>> /\ sends = <<>>
  /\ inbox = <<>> /\ calls = <<>> /\ faults = 0
  /\ nin = <<>> /\ nout = <<>> /\ reads = {}

NextIngest ==
  \/ \E sid \in IngestSessions, type \in {"notify", "append"}, batch \in Batches :
       Upsert(sid, type, batch)
  \/ \E t \in tasks, ok \in BOOLEAN, i \in 0..Len(convs) : Lookup(t, ok, i)
  \/ \E t \in tasks, ok \in BOOLEAN : Create(t, ok)
  \/ \E t \in tasks, ok \in BOOLEAN, i \in 0..Len(convs) : Retry(t, ok, i)
  \/ \E t \in tasks, ok \in BOOLEAN : Update(t, ok)
  \/ \E t \in tasks, ok \in BOOLEAN : AppendMessage(t, ok)
  \/ \E t \in tasks, ok \in BOOLEAN : Automation(t, ok)
  \/ \E t \in tasks, ok \in BOOLEAN : AutomationSent(t, ok)
  \/ \E uid \in {"u1", "u2"}, conv \in DOMAIN convs : PostMessage(uid, conv, Ok)
  \/ \E t \in tasks, ok \in BOOLEAN : PostSent(t, ok)
  \/ \E t \in tasks, ok \in BOOLEAN : PostStore(t, ok)
  \/ \E t \in tasks, ok \in BOOLEAN : PostTouch(t, ok)

SpecIngest == InitIngest /\ [][NextIngest]_vars

\* Ingestion in which every call a handler awaits settles: the store and the
\* link answer, with a result or with an error.
IngestSettling ==
  \/ \E t \in tasks, ok \in BOOLEAN, i \in 0..Len(convs) : Lookup(t, ok, i)
  \/ \E t \in tasks, ok \in BOOLEAN : Create(t, ok)
  \/ \E t \in tasks, ok \in BOOLEAN, i \in 0..Len(convs) : Retry(t, ok, i)
  \/ \E t \in tasks, ok \in BOOLEAN : Update(t, ok)
  \/ \E t \in tasks, ok \in BOOLEAN : AppendMessage(t, ok)
  \/ \E t \in tasks, ok \in BOOLEAN : Automation(t, ok)
  \/ \E t \in tasks, ok \in BOOLEAN : AutomationSent(t, ok)

SpecIngestLive == InitIngest /\ [][NextIngest]_vars /\ WF_vars(IngestSettling)

\* ------------------------------------------------------------------------
\* sendMessage on its own: calls with addresses of every form.

\* Bound: the number of sendMessage calls.
MaxCalls == 2

Group == <<"7", "@", "g", ".", "u", "s">>

\* The addresses sendMessage is called with: a bare number, an address of
\* the fixed domain, an address of another domain.
Addresses == {<<"1", "5">>, Jid1, Group}

\* sendMessage(sid, to, text) up to its await.
SendCall(sid, to, text) ==
  /\ Len(calls) < MaxCalls
  /\ ~\E t \in tasks : t.kind = "direct"
  /\ calls' = CallsAfter(sid, 0, to, text)
  /\ sends' = SendsAfter(sid, to, text)
  /\ tasks' = IF SendAllowed(sid)
              THEN tasks \cup {[kind |-> "direct", call |-> Len(calls) + 1]}
              ELSE tasks
  /\ UNCHANGED <<rev, lifeVars, connections, unhandled, convs, msgs, rules,
                 inbox, faults, normVars>>

\* connection.sock.sendMessage settles; sendMessage returns.
SendReturn(t, ok) ==
  /\ t \in tasks /\ t.kind = "direct"
  /\ Settles(ok)
  /\ calls' = [calls EXCEPT ![t.call].result = IF ok THEN "true" ELSE SendFailed]
  /\ sends' = Settle(sends, t.call, ok)
  /\ tasks' = tasks \ {t}
  /\ connections' = RegistryAfterSend(connections, calls[t.call].sid, ok)
  /\ UNCHANGED <<rev, lifeVars, unhandled, convs, msgs, rules, inbox, normVars>>

NextSend ==
  \/ \E sid \in IngestSessions, to \in Addresses, text \in {Hi, Ok} :
       SendCall(sid, to, text)
  \/ \E t \in tasks, ok \in BOOLEAN : SendReturn(t, ok)

SpecSend == InitIngest /\ [][NextSend]_vars

\* ------------------------------------------------------------------------
\* Chat synchronisation (processChat) and the reads of the registry, next to
\* message ingestion

NullText == <<"\\null">>

StatusJid ==
  <<"s", "t", "a", "t", "u", "s", "@", "b", "r", "o", "a", "d", "c", "a", "s", "t">>

Chat(id, name, pushName, unreadCount) ==
  [id |-> id, name |-> name, pushName |-> pushName,
   unreadCount |-> unreadCount, lastMessage |-> Undef]

\* The chats the links report.
Chats ==
  {Chat(Jid1, Alice, Undef, 3), Chat(Jid1, Undef, Undef, 0),
   Chat(StatusJid, Undef, Undef, 0)}

ChatBatches == UNION {[1..n -> Chats] : n \in 1..MaxBatch}

\* chat.id?.split("@")[0]
ChatNumber(chat) == IF chat.id = Undef THEN Undef ELSE BeforeAt(chat.id)

\* processChat returns at once.
SkipsChat(chat) ==
  \/ ~Truthy(ChatNumber(chat))
  \/ Includes(ChatNumber(chat), <<"s", "t", "a", "t", "u", "s">>)
  \/ Includes(ChatNumber(chat), <<"b", "r", "o", "a", "d", "c", "a", "s", "t">>)

\* chat.name || chat.pushName || contactNumber
ChatName(chat) == OrElse(chat.name, OrElse(chat.pushName, ChatNumber(chat)))

ChatTask(sid, todo) ==
  [kind |-> "chat", sid |-> sid, todo |-> todo, pc |-> "lookup",
   conv |-> 0, lastMessage |-> Undef]

\* The tasks once processChat has returned for the head of t.todo: the loop
\* of the chats handler goes on to the next chat.
ChatAdvance(t) ==
  IF Len(t.todo) = 1 THEN tasks \ {t}
  ELSE (tasks \ {t}) \cup {ChatTask(t.sid, Tail(t.todo))}

\* A chats.set or chats.upsert event of the link of session sid.  Only the
\* second revision of whatsapp-manager.ts registers handlers for them.  The
\* chats are logged in the inbox, next to the messages.
ChatsEvent(sid, chats) ==
  /\ rev = "B"
  /\ Len(inbox) + Len(chats) <= MaxMsgs
  /\ sid \in DOMAIN rows
  /\ inbox' = inbox \o [i \in 1..Len(chats) |->
                          [sid |-> sid, chat |-> chats[i],
                           ev |-> Events(inbox) + 1]]
  /\ LET todo == SelectSeq(chats, LAMBDA c : ~SkipsChat(c))
     IN tasks' = IF todo = <<>> THEN tasks ELSE tasks \cup {ChatTask(sid, todo)}
  /\ UNCHANGED <<rev, lifeVars, connections, unhandled, convs, msgs, rules,
                 sends, calls, faults, normVars>>

\* processChat: getConversationsBySessionId settles; find.  A rejection
\* reaches the catch block and processChat returns.
ChatLookup(t, ok, i) ==
  /\ t \in tasks /\ t.kind = "chat" /\ t.pc = "lookup"
  /\ Settles(ok)
  /\ LET found == Matches(convs, t.sid, ChatNumber(Head(t.todo)))
     IN IF ~ok
        THEN i = 0 /\ tasks' = ChatAdvance(t)
        ELSE IF found # {}
        THEN /\ i \in found
             /\ tasks' = (tasks \ {t}) \cup
                  {[t EXCEPT !.pc = "update", !.conv = i,
                             !.lastMessage = convs[i].lastMessage]}
        ELSE /\ i = 0
             /\ tasks' = (tasks \ {t}) \cup {[t EXCEPT !.pc = "create"]}
  /\ UNCHANGED <<rev, lifeVars, connections, unhandled, convs, msgs, rules,
                 sends, inbox, calls, normVars>>

\* processChat: createConversation settles.
ChatCreate(t, ok) ==
  /\ t \in tasks /\ t.kind = "chat" /\ t.pc = "create"
  /\ Settles(ok)
  /\ LET chat == Head(t.todo)
     IN convs' = IF ok
                 THEN Append(convs,
                        [sessionId |-> t.sid, contactName |-> ChatName(chat),
                         contactNumber |-> ChatNumber(chat),
                         lastMessage |-> OrElse(chat.lastMessage, NullText),
                         unreadCount |-> chat.unreadCount, by |-> 0])
                 ELSE convs
  /\ tasks' = ChatAdvance(t)
  /\ UNCHANGED <<rev, lifeVars, connections, unhandled, msgs, rules, sends,
                 inbox, calls, normVars>>

\* processChat: updateConversation settles.
ChatUpdate(t, ok) ==
  /\ t \in tasks /\ t.kind = "chat" /\ t.pc = "update"
  /\ Settles(ok)
  /\ LET chat == Head(t.todo)
     IN convs' = IF ok
                 THEN [convs EXCEPT
                         ![t.conv].contactName = ChatName(chat),
                         ![t.conv].lastMessage =
                            OrElse(chat.lastMessage, t.lastMessage),
                         ![t.conv].unreadCount = chat.unreadCount]
                 ELSE convs
  /\ tasks' = ChatAdvance(t)
  /\ UNCHANGED <<rev, lifeVars, connections, unhandled, msgs, rules, sends,
                 inbox, calls, normVars>>

\* getConnection(sid): the entry of the registry, or nothing.
Entry(sid) ==
  IF sid \in DOMAIN connections THEN <<connections[sid]>> ELSE <<>>

GetConnection(sid) ==
  /\ reads' = reads \cup {[op |-> "getConnection", sid |-> sid,
                           value |-> Entry(sid)]}
  /\ UNCHANGED <<rev, lifeVars, connections, tasks, unhandled, ingestVars,
                 nin, nout>>

\* The registry and the rules the chat synchronisation starts from.
InitChat ==
  /\ InitIngest
  /\ connections = BothConnected /\ rules = Greets

NextChat ==
  \/ \E sid \in IngestSessions, batch \in Batches : Upsert(sid, "notify", batch)
  \/ \E t \in tasks, ok \in BOOLEAN, i \in 0..Len(convs) : Lookup(t, ok, i)
  \/ \E t \in tasks, ok \in BOOLEAN : Create(t, ok)
  \/ \E t \in tasks, ok \in BOOLEAN, i \in 0..Len(convs) : Retry(t, ok, i)
  \/ \E t \in tasks, ok \in BOOLEAN : Update(t, ok)
  \/ \E t \in tasks, ok \in BOOLEAN : AppendMessage(t, ok)
  \/ \E t \in tasks, ok \in BOOLEAN : Automation(t, ok)
  \/ \E t \in tasks, ok \in BOOLEAN : AutomationSent(t, ok)
  \/ \E sid \in IngestSessions, chats \in ChatBatches : ChatsEvent(sid, chats)
  \/ \E t \in tasks, ok \in BOOLEAN, i \in 0..Len(convs) : ChatLookup(t, ok, i)
  \/ \E t \in tasks, ok \in BOOLEAN : ChatCreate(t, ok)
  \/ \E t \in tasks, ok \in BOOLEAN : ChatUpdate(t, ok)
  \/ \E sid \in IngestSessions : GetConnection(sid)

SpecChat == InitChat /\ [][NextChat]_vars

\* ------------------------------------------------------------------------
\* Ingestion of the messages of a contact whose conversation is in the store
\* already

\* The conversation an earlier message of the contact has left on session
\* s1.
Known ==
  [sessionId |-> "s1", contactName |-> Alice, contactNumber |-> <<"1", "5">>,
   lastMessage |-> Hi, unreadCount |-> 1, by |-> 0]

InitKnown ==
  /\ rev \in Revisions
  /\ rows = [s \in IngestSessions |->
               [userId |-> "u1", status |-> "connected",
                phoneNumber |-> Null, qrCode |-> Null]]
  /\ usedIds = IngestSessions /\ authDirs = IngestSessions
  /\ connections = BothConnected /\ rules = Greets
  /\ socks = [k \in 1..2 |->
                [NewSock(IF k = 1 THEN "s1" ELSE "s2") EXCEPT !.opened = TRUE]]
  /\ timers = [s \in Sessions |-> 0] /\ tasks = {} /\ unhandled = {}
  /\ convs = <<Known>> /\ msgs = <<>> /\ sends = <<>>
  /\ inbox = <<>> /\ calls = <<>> /\ faults = 0
  /\ nin = <<>> /\ nout = <<>> /\ reads = {}

NextKnown ==
  \/ \E sid \in IngestSessions, type \in {"notify", "append"}, batch \in Batches :
       Upsert(sid, type, batch)
  \/ \E t \in tasks, ok \in BOOLEAN, i \in 0..Len(convs) : Lookup(t, ok, i)
  \/ \E t \in tasks, ok \in BOOLEAN : Create(t, ok)
  \/ \E t \in tasks, ok \in BOOLEAN, i \in 0..Len(convs) : Retry(t, ok, i)
  \/ \E t \in tasks, ok \in BOOLEAN : Update(t, ok)
  \/ \E t \in tasks, ok \in BOOLEAN : AppendMessage(t, ok)
  \/ \E t \in tasks, ok \in BOOLEAN : Automation(t, ok)
  \/ \E t \in tasks, ok \in BOOLEAN : AutomationSent(t, ok)

SpecKnown == InitKnown /\ [][NextKnown]_vars

\* ------------------------------------------------------------------------
\* The routes on conversations and sessions, as authenticated users call them

\* The users that hold a token: u1 owns both sessions, u2 owns none.
Requesters == {"u1", "u2"}

\* session.userId === req.user.userId
Owns(uid, sid) == sid \in DOMAIN rows /\ rows[sid].userId = uid

\* DatabaseStorage.getMessagesByConversationId
MessagesOf(conv) == SelectSeq(msgs, LAMBDA m : m.conversationId = conv)

\* GET /api/conversations/:id/messages: the rows are read and sent as the
\* answer; a rejection of the store is answered with status 500.
GetMessages(uid, conv, ok) ==
  /\ conv \in DOMAIN convs /\ convs[conv].sessionId \in DOMAIN rows
  /\ Settles(ok)
  /\ reads' = reads \cup
       {[op |-> "messages", uid |-> uid, conv |-> conv,
         status |-> IF ok THEN 200 ELSE 500,
         rows |-> IF ok THEN MessagesOf(conv) ELSE <<>>]}
  /\ UNCHANGED <<rev, lifeVars, connections, tasks, unhandled, convs, msgs,
                 rules, sends, inbox, calls, nin, nout>>

\* DELETE /api/whatsapp/sessions/:id as user uid: the row is read and its
\* owner compared with the user; then disconnectSession.
DeleteRequest(uid, sid) ==
  /\ Owns(uid, sid)
  /\ DeleteSession(sid)

\* The Message row an earlier message of the contact has left.
KnownRow ==
  [conversationId |-> 1, content |-> Hi, fromMe |-> FALSE,
   status |-> "delivered", of |-> 0]

InitRoutes ==
  /\ rev \in Revisions
  /\ rows = [s \in IngestSessions |->
               [userId |-> "u1", status |-> "connected",
                phoneNumber |-> Null, qrCode |-> Null]]
  /\ usedIds = IngestSessions /\ authDirs = IngestSessions
  /\ connections = BothConnected /\ rules = <<>>
  /\ socks = [k \in 1..2 |->
                [NewSock(IF k = 1 THEN "s1" ELSE "s2") EXCEPT !.opened = TRUE]]
  /\ timers = [s \in Sessions |-> 0] /\ tasks = {} /\ unhandled = {}
  /\ convs = <<Known>> /\ msgs = <<KnownRow>> /\ sends = <<>>
  /\ inbox = <<>> /\ calls = <<>> /\ faults = 0
  /\ nin = <<>> /\ nout = <<>> /\ reads = {}

NextRoutes ==
  \/ \E uid \in Requesters, conv \in DOMAIN convs, ok \in BOOLEAN :
       GetMessages(uid, conv, ok)
  \/ \E uid \in Requesters, conv \in DOMAIN convs : PostMessage(uid, conv, Ok)
  \/ \E t \in tasks, ok \in BOOLEAN : PostSent(t, ok)
  \/ \E t \in tasks, ok \in BOOLEAN : PostStore(t, ok)
  \/ \E t \in tasks, ok \in BOOLEAN : PostTouch(t, ok)
  \/ \E uid \in Requesters, sid \in Sessions : DeleteRequest(uid, sid)
  \/ \E t \in tasks, ok \in BOOLEAN, e \in BOOLEAN : DiscLogout(t, ok, e)
  \/ \E t \in tasks, ok \in BOOLEAN : LogoutStep(t, ok)
  \/ \E t \in tasks, p \in BOOLEAN, r \in BOOLEAN : DiscPersist(t, p, r)
  \/ \E t \in tasks : DeleteRow(t)

SpecRoutes == InitRoutes /\ [][NextRoutes]_vars

\* ------------------------------------------------------------------------
\* Normalisation on its own: one message in, its text out.

\* Bound: the number of fields of msg.message that are set at once.
MaxFields == 2

MediaVals ==
  {NoMedia} \cup {[has |-> TRUE, caption |-> c, fileName |-> Undef] :
                    c \in {Undef, <<>>, Hi}}

DocumentVals ==
  {NoMedia} \cup {[has |-> TRUE, caption |-> c, fileName |-> f] :
                    c \in {Undef, Hi}, f \in {Undef, FileName}}

ContentShapes ==
  [present : {TRUE},
   conversation : {Undef, <<>>, Blank, Hi},
   extended : {[has |-> FALSE, text |-> Undef]} \cup
              {[has |-> TRUE, text |-> x] : x \in {Undef, Hi}},
   textMessage : {Undef, Hi},
   image : MediaVals, video : MediaVals, audio : BOOLEAN,
   document : DocumentVals, sticker : BOOLEAN,
   contact : {[has |-> FALSE, displayName |-> Undef]} \cup
             {[has |-> TRUE, displayName |-> x] : x \in {Undef, Alice}},
   reaction : {[has |-> FALSE, text |-> Undef]} \cup
              {[has |-> TRUE, text |-> x] : x \in {Undef, <<>>, Thumb}},
   quoted : BOOLEAN]

FieldsSet(c) ==
  Cardinality({f \in DOMAIN EmptyContent \ {"present"} : c[f] # EmptyContent[f]})

Contents == {NoContent} \cup {c \in ContentShapes : FieldsSet(c) <= MaxFields}

\* The messages normalisation is tried on.  Revision A reads the result of
\* extractMessageContent, revisions B and C read msg.body, msg.text and
\* msg.caption.
NormInputs(r) ==
  { [Envelope(jid, fromMe, Alice, c) EXCEPT
       !.body = alt[1], !.text = alt[2], !.caption = alt[3],
       !.extracted = ex[1], !.extractThrows = ex[2]] :
      jid \in {Undef, Jid1}, fromMe \in BOOLEAN, c \in Contents,
      alt \in IF r = "A" THEN {<<Undef, Undef, Undef>>}
              ELSE {<<Undef, Undef, Undef>>, <<Hi, Undef, Undef>>,
                    <<Undef, Hi, Undef>>, <<Undef, <<>>, Hi>>},
      ex \in IF r = "A" THEN {<<Undef, FALSE>>, <<Hi, FALSE>>, <<Undef, TRUE>>}
             ELSE {<<Undef, FALSE>>} }

InitNorm ==
  /\ rev \in Revisions
  /\ \E m \in NormInputs(rev) : nin = <<m>>
  /\ nout = <<>> /\ reads = {}
  /\ rows = <<>> /\ usedIds = {} /\ authDirs = {} /\ connections = <<>>
  /\ socks = <<>> /\ timers = [s \in Sessions |-> 0] /\ tasks = {}
  /\ unhandled = {}
  /\ convs = <<>> /\ msgs = <<>> /\ rules = <<>> /\ sends = <<>>
  /\ inbox = <<>> /\ calls = <<>> /\ faults = 0

\* handleIncomingMessage from its entry to the conversation lookup.
Normalize ==
  /\ nin # <<>> /\ nout = <<>>
  /\ nout' = <<[dropped |-> Skips(rev, nin[1]),
                text |-> IF Skips(rev, nin[1]) THEN <<>>
                         ELSE MessageText(rev, nin[1])]>>
  /\ UNCHANGED <<rev, nin, reads, lifeVars, connections, tasks, unhandled,
                 ingestVars>>

NextNorm == Normalize

SpecNorm == InitNorm /\ [][NextNorm]_vars

\* ------------------------------------------------------------------------
\* Properties

\* The persisted status of a session, "none" when it has no row.
Persisted(sid) == IF sid \in DOMAIN rows THEN rows[sid].status ELSE "none"

\* The close event of link k has been taken through the close branch, or
\* its handler has ended before it.
CloseSettled(k) ==
  /\ socks[k].state = "closed"
  /\ ~\E t \in Handlers :
        t.sock = k /\ t.ev.connection = "close" /\ t.pc \in {"qr", "code"}

LiveSocks(sid) ==
  {k \in DOMAIN socks : socks[k].sid = sid /\ socks[k].state = "live"}

\* C1: every session identifier has at most one Device Link that was created
\* and has not been closed or terminated.
C1_AtMostOneLiveLink == \A sid \in Sessions : Cardinality(LiveSocks(sid)) <= 1

\* A second link was made for a session identifier that had a registry entry,
\* and it is the registered one.
C1_Witness ==
  \E sid \in DOMAIN connections :
    /\ connections[sid].sock > 1
    /\ socks[connections[sid].sock].state = "live"
    /\ \E k \in DOMAIN socks : k < connections[sid].sock /\ socks[k].sid = sid


\* C3: a close with the logged-out reason schedules no reconnect, a close with
\* any other reason, an absent one included, schedules exactly one.
C3_ReconnectIffNotLogout ==
  \A k \in DOMAIN socks :
    CloseSettled(k) =>
      socks[k].reconnects = IF socks[k].reason = "loggedOut" THEN 0 ELSE 1

\* disconnectSession, called with the registry entry connected, returns in
\* this step.
DisconnectReturns(t) ==
  /\ t.kind = "disc" /\ t.pc = "persist" /\ t.wasConnected
  /\ t \notin tasks'

TornDown(sid) ==
  /\ Persisted(sid) \in {"disconnected", "none"}
  /\ sid \notin DOMAIN connections
  /\ sid \notin authDirs

C9_NothingEscapes == unhandled = {}

\* C10: while the registered link of a session is closed for a reason other
\* than logout, neither the registry nor the store shows the session as
\* connected.
C10_ConnectingWhileRetrying ==
  \A sid \in DOMAIN connections :
    LET k == connections[sid].sock
    IN (socks[k].state = "closed" /\ socks[k].reason # "loggedOut")
       => /\ connections[sid].status # "connected"
          /\ Persisted(sid) # "connected"


\* C6: an inbound message with a remote address is not dropped and its
\* normalised text is not empty, whatever its payload.
C6_TextNeverEmpty ==
  \A i \in DOMAIN nout :
    (Truthy(nin[i].key.remoteJid) /\ ~nin[i].key.fromMe)
      => ~nout[i].dropped /\ nout[i].text # <<>>

\* The send attempts of sendMessage call c.
Attempts(c) == {i \in DOMAIN sends : sends[i].call = c}

\* C2: once the executions of handleIncomingMessage have finished, a session
\* holds exactly one Conversation row for a contact address, also when two
\* executions looked the conversation up before either created it.
C2_OneConversationPerContact ==
  tasks = {} =>
    \A i \in DOMAIN convs, j \in DOMAIN convs :
      (convs[i].sessionId = convs[j].sessionId
         /\ convs[i].contactNumber = convs[j].contactNumber) => i = j

\* C5: automation calls sendMessage at most once for a delivered message,
\* and never for a message whose fromMe flag is true.
C5_AutomationOncePerInbound ==
  \A id \in DOMAIN inbox :
    LET by == {c \in DOMAIN calls : calls[c].by = id}
    IN /\ Cardinality(by) <= 1
       /\ inbox[id].msg.key.fromMe => by = {}

\* C7: a sendMessage call that finds no registry entry, or an entry whose
\* status is not connected, returns false and issues no send on any link.
C7_NoSendUnlessConnected ==
  \A c \in DOMAIN calls :
    calls[c].status # "connected" =>
      calls[c].result = "false" /\ Attempts(c) = {}

C7_Witness ==
  \E c \in DOMAIN calls :
    calls[c].status = "connecting" /\ calls[c].result = "false"

\* C8: a sendMessage call makes at most one send attempt, gives its caller
\* true or false and never an error, gives false when the attempt failed,
\* and gives true only when its single attempt succeeded.
C8_OneAttemptBooleanResult ==
  \A c \in DOMAIN calls :
    /\ Cardinality(Attempts(c)) <= 1
    /\ calls[c].result \in {"pending", "true", "false"}
    /\ (\E i \in Attempts(c) : sends[i].outcome = "failed")
         => calls[c].result = "false"
    /\ calls[c].result = "true"
         => \E i \in Attempts(c) : sends[i].outcome = "ok"

C8_Witness ==
  \E c \in DOMAIN calls :
    /\ calls[c].result = "false"
    /\ \E i \in Attempts(c) : sends[i].outcome = "failed"

\* The handler of a logged-out close on link t.sock ends in this step.
LogoutHandled(t) ==
  /\ t.kind = "conn" /\ t.pc = "logout"
  /\ t \notin tasks'

\* C11: once a close with the logged-out reason has been handled, the
\* persisted status of the session is disconnected and the registry has no
\* entry for it, the entry being removed also when the status update fails.
C11_LogoutTearsDown ==
  [][\A t \in tasks :
       LogoutHandled(t) =>
         /\ Persisted(t.sid)' \in {"disconnected", "none"}
         /\ t.sid \notin DOMAIN connections']_vars

\* disconnectSession returns in this step.
DisconnectEnds(t) ==
  /\ t.kind = "disc" /\ t.pc = "persist"
  /\ t \notin tasks'

\* C12: no credential directory of the session is left when disconnectSession
\* has returned, nor when a close with the logged-out reason has been handled.
C12_CredentialsWiped ==
  [][\A t \in tasks :
       (DisconnectEnds(t) \/ LogoutHandled(t)) => t.sid \notin authDirs']_vars

\* C13: when disconnectSession returns, its caller goes on, the registry
\* entry is gone, the link is closed unless end() itself threw, the status
\* reads disconnected unless the status update itself failed, and the
\* credential directory is gone unless its removal itself failed, whichever
\* of the other steps failed.
C13_StepsIndependent ==
  [][\A t \in tasks :
       DisconnectEnds(t) =>
         /\ \E r \in tasks' : r.kind = "route" /\ r.sid = t.sid
         /\ t.sid \notin DOMAIN connections'
         /\ \A r \in tasks' \ tasks :
              (r.kind = "route" /\ r.sid = t.sid) =>
                /\ (t.sock # 0 /\ ~r.endFailed)
                     => socks'[t.sock].state = "closed"
                /\ r.persistOk
                     => Persisted(t.sid)' \in {"disconnected", "none"}
                /\ r.rmOk => t.sid \notin authDirs']_vars

\* disconnectSession has returned with its logout, its end(), its status
\* update and its removal of the directory all failed.
C13_Witness ==
  \E r \in tasks :
    /\ r.kind = "route" /\ r.logoutFailed /\ r.endFailed
    /\ ~r.persistOk /\ ~r.rmOk
    /\ r.sid \notin DOMAIN connections

\* The DELETE route of session sid has run to its end: disconnectSession has
\* returned and the row is deleted.
Deleted(sid) == sid \in usedIds /\ sid \notin DOMAIN rows

\* C14: a reconnect timer that fires once disconnectSession has completed
\* for its session does not bring the credential directory of the session
\* back.
C14_NoResurrectionByTimer ==
  [][\A sid \in Sessions :
       (timers'[sid] < timers[sid] /\ Deleted(sid) /\ sid \notin authDirs)
         => sid \notin authDirs']_vars

\* C15: a reconnect timer that fires for a session whose DELETE route has
\* run to its end makes the credential directory again and raises nothing,
\* and the createSession it starts, when it makes a link, registers that link
\* under the session with status connecting and raises nothing.
C15_ReconnectAfterTeardown ==
  [][\A sid \in Sessions :
       Deleted(sid) =>
         /\ timers'[sid] < timers[sid]
              => /\ sid \in authDirs'
                 /\ CreateTask(sid) \in tasks'
                 /\ unhandled' = unhandled
         /\ (CreateTask(sid) \in tasks /\ CreateTask(sid) \notin tasks')
              => /\ unhandled' = unhandled
                 /\ socks' # socks
                      => /\ socks'[Len(socks')].sid = sid
                         /\ socks'[Len(socks')].state = "live"
                         /\ sid \in DOMAIN connections'
                         /\ connections'[sid].sock = Len(socks')
                         /\ connections'[sid].status = "connecting"
                         /\ connections'[sid].qrCode = Null]_vars

\* A session whose row is deleted has a registered live link again.
C15_Witness ==
  \E sid \in Sessions :
    /\ Deleted(sid) /\ sid \in authDirs
    /\ sid \in DOMAIN connections
    /\ connections[sid].status = "connecting"
    /\ socks[connections[sid].sock].state = "live"

\* Link k is closed with a reason other than logged out and a further link
\* can still be made.
AwaitsReconnect(k) ==
  /\ k \in DOMAIN socks /\ k < MaxSocks
  /\ socks[k].state = "closed" /\ socks[k].reason # "loggedOut"

\* A later link of the session of link k is the registered one.
Reconnected(k) ==
  /\ k \in DOMAIN socks
  /\ \E j \in DOMAIN socks :
       /\ j > k /\ socks[j].sid = socks[k].sid
       /\ socks[k].sid \in DOMAIN connections
       /\ connections[socks[k].sid].sock >= j

\* C16: timers firing and awaited calls settling, every close with a reason
\* other than logged out is followed by a new registered link of the session.
C16_EventuallyReconnected ==
  \A k \in 1..MaxSocks : AwaitsReconnect(k) ~> Reconnected(k)

\* Message id of the inbox is not, or no longer, in the hands of a handler.
Done(id) ==
  \A t \in tasks :
    t.kind = "upsert" => \A i \in DOMAIN t.todo : t.todo[i].id # id

\* Message id was handed to handleIncomingMessage.
Ingested(id) == inbox[id].handed

\* Message id has a remote address and is not from us.
Inbound(id) ==
  Truthy(inbox[id].msg.key.remoteJid) /\ ~inbox[id].msg.key.fromMe

\* The text the specification gives for the messages delivered.
ExpectedText(id) ==
  IF inbox[id].msg.message.conversation = Hi THEN Hi
  ELSE <<"[", "S", "t", "i", "c", "k", "e", "r", "]">>

\* The conversations message id created, the Message rows it appended.
MadeBy(id) == {c \in DOMAIN convs : convs[c].by = id}
RowsOf(id) == {i \in DOMAIN msgs : msgs[i].of = id}

\* Another message created a conversation of the session and contact of id.
MadeByOther(id) ==
  \E c \in DOMAIN convs :
    /\ convs[c].by # id /\ convs[c].sessionId = inbox[id].sid
    /\ convs[c].contactNumber = <<"1", "5">>

\* C17: an inbound message from a contact without a conversation on the
\* session creates one Conversation, named by the push name or else by the
\* contact number, numbered by the address without its domain, with the
\* message's text as lastMessage and unreadCount 1, and appends one Message
\* with that text, fromMe false and status delivered.
C17_FirstMessageCreates ==
  /\ [](\A id \in DOMAIN inbox :
          Inbound(id) =>
            /\ Cardinality(MadeBy(id)) <= 1 /\ Cardinality(RowsOf(id)) <= 1
            /\ \A c \in MadeBy(id) :
                 /\ convs[c].sessionId = inbox[id].sid
                 /\ convs[c].contactNumber = <<"1", "5">>
                 /\ convs[c].contactName =
                      IF inbox[id].msg.pushName = Alice THEN Alice
                      ELSE <<"1", "5">>
                 /\ \A r \in RowsOf(id) :
                      /\ msgs[r].conversationId = c
                      /\ msgs[r].content = ExpectedText(id)
                      /\ msgs[r].fromMe = FALSE
                      /\ msgs[r].status = "delivered"
            /\ (Done(id) /\ Ingested(id) /\ faults = 0 /\ ~MadeByOther(id))
                 => Cardinality(MadeBy(id)) = 1 /\ Cardinality(RowsOf(id)) = 1)
  /\ [][\A c \in DOMAIN convs' \ DOMAIN convs :
          (convs'[c].by # 0 /\ Inbound(convs'[c].by))
            => /\ convs'[c].lastMessage = ExpectedText(convs'[c].by)
               /\ convs'[c].unreadCount = 1]_vars

\* A message with a push name and one without have each created their
\* conversation and appended their row.
C17_Witness ==
  \E id \in DOMAIN inbox, c \in DOMAIN convs, r \in DOMAIN msgs :
    /\ Inbound(id) /\ Done(id) /\ convs[c].by = id /\ msgs[r].of = id
    /\ convs[c].contactName = Alice /\ msgs[r].conversationId = c

\* Messages i and j are inbound messages of one session, j was handled
\* after i had been handled to its end, no store call failed and no other
\* message of the session was delivered; both are handled to their end.
SecondAfterFirst(i, j) ==
  /\ i < j /\ inbox[i].sid = inbox[j].sid
  /\ Inbound(i) /\ Inbound(j) /\ Ingested(i) /\ Ingested(j)
  /\ inbox[j].seq /\ faults = 0
  /\ \A k \in DOMAIN inbox \ {i, j} : inbox[k].sid # inbox[i].sid
  /\ Done(i) /\ Done(j)

\* C18: a second inbound message of a contact, handled after the first was
\* handled to its end, creates no Conversation; it sets lastMessage to its
\* text and unreadCount to 2 and appends one Message to the conversation the
\* first message created.
C18_SecondMessageUpdates ==
  /\ [](\A i \in DOMAIN inbox, j \in DOMAIN inbox :
          SecondAfterFirst(i, j) =>
            /\ MadeBy(j) = {} /\ Cardinality(MadeBy(i)) = 1
            /\ \A c \in MadeBy(i) :
                 /\ convs[c].unreadCount = 2
                 /\ Cardinality(RowsOf(j)) = 1
                 /\ \A r \in RowsOf(j) : msgs[r].conversationId = c)
  /\ [][\A t \in tasks :
          (/\ t.kind = "upsert" /\ t.pc = "update" /\ t \notin tasks'
           /\ faults' = faults /\ Inbound(Head(t.todo).id))
          => /\ Len(convs') = Len(convs)
             /\ convs'[t.conv.id].lastMessage = ExpectedText(Head(t.todo).id)]_vars

C18_Witness ==
  \E i \in DOMAIN inbox, j \in DOMAIN inbox, c \in DOMAIN convs :
    /\ SecondAfterFirst(i, j) /\ convs[c].unreadCount = 2
    /\ convs[c].lastMessage = ExpectedText(j)
    /\ ExpectedText(i) # ExpectedText(j)

\* Rule `rule` belongs to the owner of the session of message id, is active,
\* and its keyword is in the text of the message, case ignored.
Fires(rule, id) ==
  /\ rule.userId = rows[inbox[id].sid].userId
  /\ rule.isActive
  /\ Includes(ToLowerCase(ExpectedText(id)), ToLowerCase(rule.keyword))

\* The sendMessage calls automation made for message id.
CallsBy(id) == {c \in DOMAIN calls : calls[c].by = id}

\* Message id is inbound, was handled to its end, and no store call failed.
Handled0(id) ==
  Inbound(id) /\ Ingested(id) /\ Done(id) /\ faults = 0

\* C19: for an inbound message whose text holds the keyword of an active
\* rule of the session's owner, sendMessage is called once, with the
\* session of the message, its contact number and the response of such a
\* rule.
C19_MatchingRuleSendsOnce ==
  \A id \in DOMAIN inbox :
    (Handled0(id) /\ \E i \in DOMAIN rules : Fires(rules[i], id))
      => /\ Cardinality(CallsBy(id)) = 1
         /\ \A c \in CallsBy(id) :
              /\ calls[c].sid = inbox[id].sid
              /\ calls[c].to = <<"1", "5">>
              /\ \E i \in DOMAIN rules :
                   Fires(rules[i], id) /\ calls[c].text = rules[i].response

C19_Witness ==
  \E id \in DOMAIN inbox, c \in DOMAIN calls :
    /\ Handled0(id) /\ calls[c].by = id /\ calls[c].result = "true"
    /\ calls[c].text = Ok /\ calls[c].to = <<"1", "5">>

\* Rule i of the table is the first, in the order of the store, that fires
\* for message id.
FirstFiring(i, id) ==
  /\ i \in DOMAIN rules /\ Fires(rules[i], id)
  /\ \A j \in 1..(i - 1) : ~Fires(rules[j], id)

\* C20: every sendMessage call of automation carries the response of the
\* first rule, in the order of the store, that belongs to the owner, is
\* active and has its keyword in the text, case ignored; with no such rule
\* automation makes no call.
C20_FirstActiveMatchWins ==
  \A id \in DOMAIN inbox :
    /\ \A c \in CallsBy(id) :
         \E i \in DOMAIN rules :
           FirstFiring(i, id) /\ calls[c].text = rules[i].response
    /\ (~\E i \in DOMAIN rules : Fires(rules[i], id))
         => /\ CallsBy(id) = {}
            /\ ~\E n \in DOMAIN sends : calls[sends[n].call].by = id

\* A call was made with the response of the first of two rules that fire.
C20_Witness ==
  \E id \in DOMAIN inbox, c \in DOMAIN calls, i \in DOMAIN rules,
     j \in DOMAIN rules :
    /\ calls[c].by = id /\ FirstFiring(i, id) /\ i < j /\ Fires(rules[j], id)
    /\ calls[c].text = rules[i].response
    /\ rules[j].response # rules[i].response

\* Task t waits for the second query, made after its create failed.
AtRetry(t) == t.kind = "upsert" /\ t.pc = "retry"

\* Task t goes on with a conversation the second query gave it.
ViaRetry(t) == t.kind = "upsert" /\ t.conv.via = "retry"

\* C21: when createConversation has failed and the second query finds a
\* Conversation of the session and contact, the handler goes on with that
\* row: it appends the Message to it and evaluates the rules, and returns
\* only after that; when the second query finds none, handleIncomingMessage
\* returns, and no Message is appended and no send is made for the message,
\* then or later.
C21_RetryUsesExistingRow ==
  /\ [][\A t \in tasks :
          (AtRetry(t) /\ t \notin tasks') =>
            LET id == Head(t.todo).id
                found == Matches(convs, t.sid, ContactNumber(Cur(t)))
            IN /\ convs' = convs /\ msgs' = msgs /\ calls' = calls
               /\ IF found # {} /\ faults' = faults
                  THEN \E r \in tasks' :
                         /\ r.kind = "upsert" /\ r.todo = t.todo
                         /\ r.pc = "append" /\ r.conv.id \in found
                  ELSE Done(id)' /\ RowsOf(id) = {} /\ CallsBy(id) = {}]_vars
  /\ [][\A t \in tasks :
          (ViaRetry(t) /\ t \notin tasks') =>
            LET id == Head(t.todo).id
            IN /\ t.pc = "append" =>
                    /\ \E r \in tasks' :
                         r.kind = "upsert" /\ r.todo = t.todo /\ r.pc = "rules"
                    /\ faults' = faults =>
                         /\ Len(msgs') = Len(msgs) + 1
                         /\ msgs'[Len(msgs')].conversationId = t.conv.id
                         /\ msgs'[Len(msgs')].of = id
               /\ (t.pc = "rules" /\ faults' = faults) =>
                    (CallsBy(id)' # {} <=> \E i \in DOMAIN rules : Fires(rules[i], id))]_vars
  /\ [][\A id \in DOMAIN inbox :
          Done(id) => RowsOf(id)' = RowsOf(id) /\ CallsBy(id)' = CallsBy(id)]_vars

\* A message whose create failed was appended to the conversation another
\* message had created meanwhile, and its automation is sending.
C21_Witness ==
  \E t \in tasks, r \in DOMAIN msgs :
    /\ ViaRetry(t) /\ t.pc = "send"
    /\ msgs[r].of = Head(t.todo).id /\ msgs[r].conversationId = t.conv.id
    /\ convs[t.conv.id].by # Head(t.todo).id

\* Task t holds a conversation record and has just made a step.
StepsWithConv(t) == t.kind = "upsert" /\ t.conv.id # 0 /\ t \notin tasks'

\* C22: with a conversation record in hand, a failed updateConversation
\* leaves the handler at createMessage and a failed createMessage leaves it
\* at the reading of the rules, for the same message; and the reading of the
\* rules, when it succeeds, calls sendMessage once with the response of the
\* first active rule of the owner whose keyword is in the text.
C22_StoreFailureKeepsAutomation ==
  [][\A t \in tasks :
       StepsWithConv(t) =>
         LET id == Head(t.todo).id
         IN /\ (t.pc \in {"update", "append"} /\ faults' = faults + 1) =>
                 /\ convs' = convs /\ msgs' = msgs
                 /\ \E r \in tasks' :
                      /\ r.kind = "upsert" /\ r.todo = t.todo /\ r.conv = t.conv
                      /\ r.pc = IF t.pc = "update" THEN "append" ELSE "rules"
            /\ (t.pc = "rules" /\ faults' = faults
                  /\ \E i \in DOMAIN rules : Fires(rules[i], id)) =>
                 /\ Cardinality(CallsBy(id)') = 1
                 /\ \A c \in CallsBy(id)' :
                      /\ calls'[c].sid = t.sid
                      /\ \E i \in DOMAIN rules :
                           FirstFiring(i, id) /\ calls'[c].text = rules[i].response]_vars

\* The update of a message's conversation failed, its Message was appended
\* all the same, and the send of its matching rule is under way.
C22_Witness ==
  \E t \in tasks, r \in DOMAIN msgs, c \in DOMAIN calls :
    /\ t.kind = "upsert" /\ t.pc = "send" /\ t.conv.via = "lookup"
    /\ faults = 1 /\ convs[t.conv.id].unreadCount = t.conv.unread
    /\ msgs[r].of = Head(t.todo).id
    /\ calls[c].by = Head(t.todo).id /\ calls[c].result = "pending"

\* Message id was handed to handleIncomingMessage: the loop of the upsert
\* handler has come to it.
Started(id) ==
  /\ id \in DOMAIN inbox /\ inbox[id].handed
  /\ \/ Done(id)
     \/ \E t \in tasks : t.kind = "upsert" /\ Head(t.todo).id = id

\* C23: every message delivered in a messages.upsert event is in the end
\* handed to handleIncomingMessage, whichever store calls fail for the
\* messages before it in the batch.
C23_EveryMessageHanded ==
  \A id \in 1..MaxMsgs : (id \in DOMAIN inbox) ~> Started(id)

\* The handler of link t.sock has handled an open event to its end.
OpenHandled(t) ==
  t \in tasks /\ t.kind = "conn" /\ t.pc = "open" /\ t \notin tasks'

\* C24: once an open event has been handled, the session's row has status
\* connected, the phone number of the link and no code, and the registry
\* entry of the session has status connected and no cached code.
C24_OpenMarksConnected ==
  [][\A t \in tasks :
       OpenHandled(t) =>
         /\ t.sid \in DOMAIN rows' =>
              /\ rows'[t.sid].status = "connected"
              /\ rows'[t.sid].phoneNumber = "phone"
              /\ rows'[t.sid].qrCode = Null
         /\ t.sid \in DOMAIN connections' =>
              /\ connections'[t.sid].status = "connected"
              /\ connections'[t.sid].qrCode = Null
              /\ connections'[t.sid].pairingCode = Null]_vars

\* The handler of task t has come back from the await of its QR step or of
\* its pairing-code step, with a result or with an error.
CodeStepDone(t) ==
  t \in tasks /\ t.kind = "conn" /\ t.pc \in {"qr", "code"} /\ t \notin tasks'

\* The close or open part of the update of task t is taken up: a close that
\* is no logout schedules its reconnect, a logout close and an open reach
\* their store call.
RestTakenUp(t) ==
  /\ (t.ev.connection = "close" /\ ShouldReconnect(t.ev.reason)) =>
       timers'[t.sid] = timers[t.sid] + 1
  /\ (t.ev.connection = "close" /\ ~ShouldReconnect(t.ev.reason)) =>
       \E r \in tasks' : r.kind = "conn" /\ r.sock = t.sock /\ r.pc = "logout"
  /\ t.ev.connection = "open" =>
       \E r \in tasks' : r.kind = "conn" /\ r.sock = t.sock /\ r.pc = "open"

\* C25: the QR step and the pairing-code step either store the code or, on a
\* failure, leave the session's row and the registry as they were; either
\* way the link stays registered and live, and the close or open part of the
\* same update is taken up as after a success.
C25_QrFailureIsolated ==
  [][\A t \in tasks :
       CodeStepDone(t) =>
         /\ \/ rows' = rows
            \/ /\ t.sid \in DOMAIN rows
               /\ rows'[t.sid].qrCode = t.pc /\ rows'[t.sid].status = "connecting"
         /\ DOMAIN connections' = DOMAIN connections
         /\ \A s \in DOMAIN connections :
              /\ connections'[s].sock = connections[s].sock
              /\ connections'[s].status \in {connections[s].status, "connecting"}
         /\ socks'[t.sock].state = socks[t.sock].state
         /\ unhandled' = unhandled
         /\ RestTakenUp(t)]_vars

\* Message id has no remote address.
NoAddress(id) == ~Truthy(inbox[id].msg.key.remoteJid)

\* C26: a message without a remote address never gets past the entry of
\* handleIncomingMessage: no handler holds it at a store call or at a send,
\* no Conversation and no Message come from it and no sendMessage call is
\* made for it; and the delivery of a batch of such messages changes nothing
\* but the inbox.
C26_NoAddressNoOp ==
  /\ [](\A id \in DOMAIN inbox :
          NoAddress(id) =>
            /\ Done(id)
            /\ MadeBy(id) = {} /\ RowsOf(id) = {} /\ CallsBy(id) = {})
  /\ [][(/\ Len(inbox') > Len(inbox)
         /\ \A id \in DOMAIN inbox' \ DOMAIN inbox :
              ~Truthy(inbox'[id].msg.key.remoteJid))
          => /\ tasks' = tasks /\ convs' = convs /\ msgs' = msgs
             /\ calls' = calls /\ sends' = sends]_vars

\* A message without a remote address was handed to handleIncomingMessage
\* in a batch whose other message was ingested.
C26_Witness ==
  \E id \in DOMAIN inbox, j \in DOMAIN inbox :
    /\ NoAddress(id) /\ Ingested(id) /\ inbox[j].sid = inbox[id].sid
    /\ j = id + 1 /\ Done(j) /\ MadeBy(j) # {} /\ RowsOf(j) # {}

\* The Message rows ingestion appended (the route's rows are of no message).
IngestedRows == {r \in DOMAIN msgs : msgs[r].of # 0}

\* C27: every Message row appended by ingestion has fromMe true exactly when
\* the fromMe flag of its envelope is true, and status sent when fromMe is
\* true and delivered otherwise.
C27_RowCarriesDirection ==
  \A r \in IngestedRows :
    /\ msgs[r].fromMe = (inbox[msgs[r].of].msg.key.fromMe = TRUE)
    /\ msgs[r].status = IF msgs[r].fromMe THEN "sent" ELSE "delivered"

\* Ingestion has appended a row for a message of ours and a row for a
\* message of the contact.
C27_Witness ==
  \E r \in IngestedRows, q \in IngestedRows :
    /\ msgs[r].fromMe /\ msgs[r].status = "sent"
    /\ ~msgs[q].fromMe /\ msgs[q].status = "delivered"

\* Task t has come back from its lookup with a conversation, as task r.
FoundBy(t, r) ==
  /\ t.kind = "upsert" /\ t.pc = "lookup" /\ t \notin tasks'
  /\ r \in tasks' \ tasks /\ r.kind = "upsert" /\ r.todo = t.todo
  /\ r.pc = "update"

\* C28: a lookup that finds a Conversation of the session and contact of the
\* message keeps the unreadCount it read, and the update that follows, when
\* the store takes it, sets lastMessage to the text of the message and
\* unreadCount to the value read plus 1, whether the message is from the
\* contact or from us; no Conversation is created.
C28_ExistingConversationUpdated ==
  /\ [][\A t \in tasks, r \in tasks' :
          FoundBy(t, r) =>
            /\ r.conv.id \in Matches(convs, t.sid, ContactNumber(Cur(t)))
            /\ r.conv.unread = convs[r.conv.id].unreadCount]_vars
  /\ [][\A t \in tasks :
          (/\ t.kind = "upsert" /\ t.pc = "update" /\ t \notin tasks'
           /\ faults' = faults) =>
            /\ Len(convs') = Len(convs)
            /\ convs'[t.conv.id].lastMessage = ExpectedText(Head(t.todo).id)
            /\ convs'[t.conv.id].unreadCount = t.conv.unread + 1
            /\ \A c \in DOMAIN convs \ {t.conv.id} : convs'[c] = convs[c]]_vars

\* A message of ours, handled after the contact's message had created the
\* conversation, has raised its unreadCount to 2.
C28_Witness ==
  \E i \in DOMAIN inbox, j \in DOMAIN inbox, c \in DOMAIN convs, r \in DOMAIN msgs :
    /\ i < j /\ inbox[j].msg.key.fromMe /\ ~inbox[i].msg.key.fromMe
    /\ Done(i) /\ Done(j) /\ faults = 0
    /\ convs[c].by = i /\ convs[c].unreadCount = 2
    /\ msgs[r].of = j /\ msgs[r].conversationId = c

\* The payloads the precedence names, their fields well-formed: text, body,
\* captions, file name, display name and emoji are non-empty strings where
\* they are set, and nothing but msg.message carries text.
Listed(msg) ==
  LET c == msg.message
  IN /\ msg.body = Undef /\ msg.text = Undef /\ msg.caption = Undef
     /\ msg.extracted = Undef /\ ~msg.extractThrows
     /\ c.conversation \in {Undef, Hi} /\ c.textMessage = Undef /\ ~c.quoted
     /\ c.extended.has => c.extended.text = Hi
     /\ \A m \in {c.image, c.video, c.document} : m.caption \in {Undef, Hi}
     /\ c.document.has => c.document.fileName = FileName
     /\ c.contact.has => c.contact.displayName = Alice
     /\ c.reaction.has => c.reaction.text = Thumb

\* The text the precedence gives, first matching case.
SpecText(msg) ==
  LET c == msg.message
  IN IF ~c.present THEN <<"[", "M", "e", "s", "s", "a", "g", "e", "]">>
     ELSE IF c.conversation = Hi THEN Hi
     ELSE IF c.extended.has THEN c.extended.text
     ELSE IF c.image.has THEN Captioned(<<"[", "I", "m", "a", "g", "e", "]">>, c.image)
     ELSE IF c.video.has THEN Captioned(<<"[", "V", "i", "d", "e", "o", "]">>, c.video)
     ELSE IF c.document.has
       THEN Captioned(<<"[", "D", "o", "c", "u", "m", "e", "n", "t", "]">>, c.document)
     ELSE IF c.audio
       THEN <<"[", "A", "u", "d", "i", "o", " ", "M", "e", "s", "s", "a", "g", "e", "]">>
     ELSE IF c.sticker THEN <<"[", "S", "t", "i", "c", "k", "e", "r", "]">>
     ELSE IF c.contact.has
       THEN <<"[", "C", "o", "n", "t", "a", "c", "t", ":", " ">>
            \o c.contact.displayName \o <<"]">>
     ELSE IF c.reaction.has
       THEN <<"[", "R", "e", "a", "c", "t", "i", "o", "n", ":", " ">>
            \o c.reaction.text \o <<"]">>
     ELSE <<"[", "M", "e", "s", "s", "a", "g", "e", "]">>

\* C29: the text normalisation gives is the one of the first matching case
\* of: plain text; extended text; image, video, document as "[Kind]: caption"
\* or "[Kind]"; audio as "[Audio Message]"; sticker as "[Sticker]"; contact
\* card as "[Contact: name]"; reaction as "[Reaction: emoji]"; anything else,
\* and absent content, as "[Message]".
C29_NormalizationPrecedence ==
  \A i \in DOMAIN nout :
    (Listed(nin[i]) /\ ~nout[i].dropped) => nout[i].text = SpecText(nin[i])

\* The address holds a domain part.
HasDomain(to) == \E i \in DOMAIN to : to[i] = "@"

\* C30: every send sendMessage issues through the link goes to the address
\* it was given when that holds a domain part, and to the address followed
\* by "@s.whatsapp.net" otherwise, and carries the text it was given; a call
\* issues at most one send.
C30_SendAddressing ==
  /\ \A n \in DOMAIN sends :
       LET c == calls[sends[n].call]
       IN /\ sends[n].text = c.text
          /\ sends[n].jid = IF HasDomain(c.to) THEN c.to
                            ELSE c.to \o <<"@", "s", ".", "w", "h", "a", "t", "s",
                                           "a", "p", "p", ".", "n", "e", "t">>
  /\ \A n \in DOMAIN sends, m \in DOMAIN sends :
       sends[n].call = sends[m].call => n = m

\* A send went out to a bare number with the suffix appended, and one to an
\* address of another domain as given.
C30_Witness ==
  \E n \in DOMAIN sends, m \in DOMAIN sends :
    /\ calls[sends[n].call].to = <<"1", "5">> /\ sends[n].jid = Jid1
    /\ calls[sends[m].call].to = Group /\ sends[m].jid = Group
    /\ sends[n].outcome = "ok" /\ sends[m].text = Ok

\* ------------------------------------------------------------------------
\* C31: every step of handleIncomingMessage, of processChat, of sendMessage
\* and of getConnection leaves the session registry as it was: the map, and
\* the link, the status and the cached codes of every entry.
C31_RegistryOnlyLifecycle == [][connections' = connections]_vars

\* A message was stored, its automation's send was rejected by the link, a
\* chat made a conversation and the registry was read.
C31_Witness ==
  /\ msgs # <<>>
  /\ \E c \in DOMAIN calls :
       calls[c].status = "connected" /\ calls[c].result = "false"
  /\ \E i \in DOMAIN convs : convs[i].by = 0
  /\ \E r \in reads : r.op = "getConnection" /\ r.value # <<>>

\* The messages handleIncomingMessage has taken up for conversation c: they
\* came on its session from its contact and were not dropped.
Arrived(c) ==
  {id \in DOMAIN inbox :
     /\ inbox[id].handed /\ ~Skips(rev, inbox[id].msg)
     /\ inbox[id].sid = convs[c].sessionId
     /\ ContactNumber(inbox[id].msg) = convs[c].contactNumber}

\* C32: once every handler has finished and no store call has failed, the
\* unreadCount of a conversation that was in the store before stands above
\* its old value by the number of messages ingested for it.
C32_NoLostIncrement ==
  (tasks = {} /\ faults = 0)
    => \A c \in DOMAIN convs :
         convs[c].by = 0
           => convs[c].unreadCount = Known.unreadCount + Cardinality(Arrived(c))

\* C33: whenever a registry entry has status connected, the link stored in
\* the entry is open: it has emitted an open event and no close event since.
C33_ConnectedEntryHasOpenLink ==
  \A sid \in DOMAIN connections :
    connections[sid].status = "connected"
      => /\ socks[connections[sid].sock].state = "live"
         /\ socks[connections[sid].sock].opened

\* The handler t belongs to a link that is not the one registered for its
\* session: a newer link is.
Stale(t) ==
  /\ t.kind = "conn"
  /\ t.sid \in DOMAIN connections
  /\ connections[t.sid].sock # t.sock

\* C34: a step of the connection.update handler of a link that is no longer
\* the one registered for its session leaves the session's registry entry and
\* its persisted status as they were.
C34_StaleLinkEventsIgnored ==
  [][\A t \in tasks :
       (Stale(t) /\ t \notin tasks')
         => /\ t.sid \in DOMAIN connections'
            /\ connections'[t.sid] = connections[t.sid]
            /\ Persisted(t.sid)' = Persisted(t.sid)]_vars

\* Conversations c and d are of one session and one contact address.
SamePair(c, d) ==
  /\ convs[c].sessionId = convs[d].sessionId
  /\ convs[c].contactNumber = convs[d].contactNumber

\* C35: once every handler has finished, a conversation that processChat
\* has created is the only one of its session and contact address, whether
\* the other handlers were handleIncomingMessage or processChat.
C35_ChatSyncKeepsOnePerContact ==
  tasks = {}
    => \A c \in DOMAIN convs, d \in DOMAIN convs :
         (convs[c].by = 0 /\ SamePair(c, d)) => c = d

\* C36: a conversation that ingestion created belongs to the session its
\* message came on, a Message row that ingestion appended references a
\* conversation of the session its message came on, and a step of
\* handleIncomingMessage for a message of one session leaves the
\* conversations of every other session as they were.
C36_IngestionIsolatedPerSession ==
  /\ [](/\ \A c \in DOMAIN convs :
             convs[c].by # 0 => convs[c].sessionId = inbox[convs[c].by].sid
        /\ \A r \in DOMAIN msgs :
             msgs[r].of # 0
               => convs[msgs[r].conversationId].sessionId = inbox[msgs[r].of].sid)
  /\ [][\A t \in tasks :
          (t.kind = "upsert" /\ t \notin tasks')
            => \A c \in DOMAIN convs :
                 convs[c].sessionId # t.sid => convs'[c] = convs[c]]_vars

\* A message of the known contact came on session s2 and made a conversation
\* of s2 with its row in it, and a message on s1 raised the count of the
\* conversation of s1.
C36_Witness ==
  \E id \in DOMAIN inbox, c \in DOMAIN convs, r \in DOMAIN msgs :
    /\ inbox[id].sid = "s2" /\ convs[c].by = id /\ convs[c].sessionId = "s2"
    /\ convs[c].contactNumber = Known.contactNumber
    /\ msgs[r].of = id /\ msgs[r].conversationId = c
    /\ convs[1].unreadCount = Known.unreadCount + 1
    /\ tasks = {}

\* Rule `rule` is for every session of its owner, or for the session message
\* id came on.
InScope(rule, id) == rule.sessionId \in {Null, inbox[id].sid}

\* C37: every sendMessage call automation makes for a message carries the
\* response of a rule that fires for the message and is scoped to no session
\* or to the session the message came on.
C37_ScopedRuleFiresOnItsSession ==
  \A id \in DOMAIN inbox :
    \A c \in CallsBy(id) :
      \E i \in DOMAIN rules :
        /\ Fires(rules[i], id) /\ calls[c].text = rules[i].response
        /\ InScope(rules[i], id)

\* handleIncomingMessage is running for message id, or has left something of
\* it: a conversation, a Message row, a sendMessage call.
Begun(id) ==
  \/ \E t \in tasks : t.kind = "upsert" /\ Head(t.todo).id = id
  \/ MadeBy(id) # {} \/ RowsOf(id) # {} \/ CallsBy(id) # {}

\* Messages i and j came in one messages.upsert event.
SameEvent(i, j) == inbox[i].ev = inbox[j].ev

\* C38: of two messages of one messages.upsert event, the ingestion of the
\* later one has not begun before the ingestion of the earlier one has come
\* to its end, and the Message rows of the earlier one stand before the rows
\* of the later one.
C38_BatchInOrder ==
  \A i \in DOMAIN inbox, j \in DOMAIN inbox :
    (i < j /\ SameEvent(i, j))
      => /\ Begun(j) => Done(i)
         /\ \A p \in RowsOf(i), q \in RowsOf(j) : p < q

\* Two messages of one event have both been ingested, each with its row and
\* its automation call.
C38_Witness ==
  \E i \in DOMAIN inbox, j \in DOMAIN inbox :
    /\ i < j /\ SameEvent(i, j) /\ tasks = {}
    /\ RowsOf(i) # {} /\ RowsOf(j) # {}
    /\ CallsBy(i) # {} /\ CallsBy(j) # {}

\* Between messages of different events no order holds: the row of the
\* message that came later stands before the row of the earlier one.
EventsOverlap ==
  \E i \in DOMAIN inbox, j \in DOMAIN inbox :
    /\ i < j /\ ~SameEvent(i, j) /\ inbox[i].sid = inbox[j].sid
    /\ \E p \in RowsOf(i), q \in RowsOf(j) : q < p

\* C39: a step of the send-message route changes the conversations and the
\* Message rows only once its sendMessage call has given true; what it then
\* appends is one row of its conversation with its content, fromMe true and
\* status sent, and what it then updates is the lastMessage of its
\* conversation; the step that makes the call changes neither table, and no
\* step of the route changes an unreadCount.
C39_RouteStoresOnlyWhenSent ==
  /\ [][\A t \in tasks :
          (t.kind = "post" /\ t \notin tasks')
            => /\ (convs' # convs \/ msgs' # msgs)
                    => calls[t.call].result = "true"
               /\ \A r \in DOMAIN msgs' \ DOMAIN msgs :
                    msgs'[r] = [conversationId |-> t.conv, content |-> t.content,
                                fromMe |-> TRUE, status |-> "sent", of |-> 0]
               /\ Len(msgs') <= Len(msgs) + 1
               /\ DOMAIN convs' = DOMAIN convs
               /\ \A c \in DOMAIN convs :
                    /\ convs'[c].unreadCount = convs[c].unreadCount
                    /\ convs'[c] # convs[c]
                         => /\ c = t.conv
                            /\ convs'[c] = [convs[c] EXCEPT !.lastMessage = t.content]]_vars
  /\ [][(\E c \in DOMAIN calls' \ DOMAIN calls : calls'[c].by = 0)
          => convs' = convs /\ msgs' = msgs]_vars
  /\ [](\A r \in DOMAIN msgs :
          msgs[r].of = 0
            => \E c \in Posts :
                 calls[c].result = "true" /\ calls[c].text = msgs[r].content)

\* The route's send went out, its row is stored and the conversation shows
\* its text, with the unreadCount the contact's message left.
C39_Witness ==
  \E r \in DOMAIN msgs :
    /\ msgs[r].of = 0 /\ msgs[r].fromMe /\ tasks = {}
    /\ convs[msgs[r].conversationId].lastMessage = msgs[r].content
    /\ convs[msgs[r].conversationId].unreadCount = 1

\* C40: the answer to a request for a conversation's messages carries rows
\* only when the conversation's session belongs to the user who asked, and a
\* step of the send-message route or of the session's deletion is taken only
\* for a user who owns the session.
C40_OnlyOwnersAct ==
  /\ [](\A r \in reads :
          (r.op = "messages" /\ r.rows # <<>>)
            => Owns(r.uid, convs[r.conv].sessionId))
  /\ [][\A uid \in Requesters :
          /\ \A conv \in DOMAIN convs :
               PostMessage(uid, conv, Ok) => Owns(uid, convs[conv].sessionId)
          /\ \A sid \in Sessions : DeleteRequest(uid, sid) => Owns(uid, sid)]_vars

====
